---- MODULE Spec2Model ----
(***************************************************************************)
(* A model of the RANKS tank arena: the per-tank execution loop            *)
(* (sim.rs, Tank::step), the world tick (sim.rs, World::step), the         *)
(* geometry and the point quadtree it uses (space.rs), and the VM's        *)
(* upcall protocol as far as the tank loop depends on it (vm.rs).          *)
(*                                                                         *)
(* Coordinates are f32 in the program; the model keeps them on the integer *)
(* grid: headings are quarter turns 0..3 (0, pi/2, pi, 3pi/2), for which   *)
(* Pair::polar is a unit axis vector, and halving is integer division.     *)
(***************************************************************************)
EXTENDS Integers, Sequences, FiniteSets, TLC

VARIABLES
    config,        \* World.config
    tanks,         \* World.tanks, in list order
    bullets,       \* World.bullets, in list order
    action_queue,  \* World.action_queue
    root,          \* the local quadtree of World::step
    pc,            \* position inside World::step ("idle" between steps)
    cur,           \* index of the tank the current loop of World::step is at
    tick,          \* number of World::step calls that returned
    disp,          \* per tank: world-altering upcalls dispatched in this step
    runs,          \* run_until calls made in the current tank turn
    upcall,        \* the local uc of the loop of Tank::step: the upcall last obtained
    live0,         \* tanks that were not Dead when the collision sweep began
    marked,        \* bullets the collision sweep marked dead in this step
    lost,          \* tanks that were marked Dead while Pending
    drained,       \* the action queue as the last drain found it
    exploded,      \* tanks for which an Explode upcall was dispatched in this step
    acceptor,      \* the accept thread: "accept" or "spawn"
    next_team,     \* the accept thread's team counter
    cl,            \* the client threads in the order they were spawned: [team, at]
    chan,          \* the mpsc channel to the main loop: the messages in flight
    main,          \* where the main loop of websocket_watch is
    client_count,  \* the main loop's count of connected clients
    got,           \* the messages the main loop has received, in order
    tick0,         \* the tick at which the main loop called world.step
    stamp,         \* the last world-altering dispatch of each tank: [i, tick, counter]
    fired,         \* the Fire upcalls dispatched in this step: [idx, p, a], the place
                   \* of the bullet in the list, the tank's pos and aim
    call,          \* a call of a library function from outside World::step: its arguments
    ret            \* what that call has returned so far

vars == <<config, tanks, bullets, action_queue, root, pc, cur, tick, disp, runs, upcall,
          live0, marked, lost, drained, exploded, fired, stamp, call, ret,
          acceptor, next_team, cl, chan, main, client_count, got, tick0>>

\* the state of the world and of its step
world_only == <<config, tanks, bullets, action_queue, root, pc, cur, tick, disp, runs, upcall,
                live0, marked, lost, drained, exploded, fired, stamp>>

\* the state of the websocket server and of the main loop around the world
server == <<acceptor, next_team, cl, chan, main, client_count, got, tick0>>

(***************************************************************************)
(* Bounds of the model                                                     *)
(***************************************************************************)
MaxTicks == 3

(***************************************************************************)
(* i32 arithmetic                                                          *)
(***************************************************************************)
I32Max == 2147483647
I32Min == -I32Max - 1

\* i32::saturating_add, written so that no intermediate value leaves i32
saturating_add(a, b) ==
    IF b > 0 /\ a > I32Max - b THEN I32Max
    ELSE IF b < 0 /\ a < I32Min - b THEN I32Min
    ELSE a + b

saturating_sub_usize(a, b) == IF a - b < 0 THEN 0 ELSE a - b

Max(a, b) == IF a >= b THEN a ELSE b
Min(a, b) == IF a <= b THEN a ELSE b

(***************************************************************************)
(* space.rs: Pair                                                          *)
(***************************************************************************)
Pair(x, y) == [x |-> x, y |-> y]
PairBoth(f) == Pair(f, f)
PairZero == PairBoth(0)
PairAdd(a, b) == Pair(a.x + b.x, a.y + b.y)
PairNeg(a) == Pair(-a.x, -a.y)
PairMul(a, b) == Pair(a.x * b.x, a.y * b.y)
PairScale(a, f) == PairMul(a, PairBoth(f))
PairHalf(a) == Pair(a.x \div 2, a.y \div 2)
\* faulty variant: the sum of the absolute values
limag_Abs(a) == (IF a.x < 0 THEN -a.x ELSE a.x) + (IF a.y < 0 THEN -a.y ELSE a.y)

limag(a) == a.x + a.y
mins(a, b) == Pair(Min(a.x, b.x), Min(a.y, b.y))
maxs(a, b) == Pair(Max(a.x, b.x), Max(a.y, b.y))

\* Pair::polar for a heading of h quarter turns
polar(h) ==
    CASE h % 4 = 0 -> Pair(1, 0)
      [] h % 4 = 1 -> Pair(0, 1)
      [] h % 4 = 2 -> Pair(-1, 0)
      [] OTHER     -> Pair(0, -1)

\* Pair::ang, in eighths of a turn as far as the grid can tell them apart: 2k
\* is k quarter turns exactly, 2k + 1 an angle strictly between k and k + 1
\* quarter turns.  atan2 is negative exactly when y < 0, and adding pi to it
\* gives the angle of the opposite vector.
ang(v) ==
    LET w == IF v.y < 0 THEN PairNeg(v) ELSE v
    IN  IF w.y = 0 THEN (IF w.x >= 0 THEN 0 ELSE 4)
        ELSE IF w.x > 0 THEN 1
        ELSE IF w.x = 0 THEN 2
        ELSE 3

\* a >= bounds.0 && a < bounds.1 for an angle a of ang and bounds in quarter turns
InBounds(a, bounds) == a >= 2 * bounds[1] /\ a < 2 * bounds[2]

(***************************************************************************)
(* space.rs: AABB                                                          *)
(***************************************************************************)
\* Option<T>
None == [none |-> TRUE]
Some(v) == [none |-> FALSE, val |-> v]
is_some(o) == ~o.none

AABBNew(org, dim) ==
    LET ox == IF dim.x < 0 THEN org.x + dim.x ELSE org.x
        dx == IF dim.x < 0 THEN -dim.x ELSE dim.x
        oy == IF dim.y < 0 THEN org.y + dim.y ELSE org.y
        dy == IF dim.y < 0 THEN -dim.y ELSE dim.y
    IN  [org |-> Pair(ox, oy), dim |-> Pair(dx, dy)]

AABBEmpty == [org |-> PairZero, dim |-> PairZero]

opp(b) == PairAdd(b.org, b.dim)

\* faulty variant: the far edges belong to the box
contains_Closed(b, p) ==
    /\ p.x >= b.org.x
    /\ p.x <= opp(b).x
    /\ p.y >= b.org.y
    /\ p.y <= opp(b).y

contains(b, p) ==
    /\ p.x >= b.org.x
    /\ p.x < opp(b).x
    /\ p.y >= b.org.y
    /\ p.y < opp(b).y

enclose(b, point) ==
    IF ~contains(b, point)
    THEN LET ur == PairAdd(b.org, b.dim)
         IN  [org |-> mins(b.org, point), dim |-> maxs(b.dim, ur)]
    ELSE b

\* faulty variant: the origin of the left box is taken for the origin of the overlap
intersect_LeftOrg(a, b) ==
    LET org == a.org
        op  == mins(opp(a), opp(b))
        dim == PairAdd(op, PairNeg(org))
    IN  IF dim.x < 0 \/ dim.y < 0 THEN None ELSE Some(AABBNew(org, dim))

intersect(a, b) ==
    LET org == maxs(a.org, b.org)
        op  == mins(opp(a), opp(b))
        dim == PairAdd(op, PairNeg(org))
    IN  IF dim.x < 0 \/ dim.y < 0 THEN None ELSE Some(AABBNew(org, dim))

RECURSIVE FoldEnclose(_, _)
FoldEnclose(b, pts) ==
    IF pts = <<>> THEN b ELSE FoldEnclose(enclose(b, Head(pts)), Tail(pts))

\* faulty variant: the box starts one unit wide at the first point
over_points_Padded(pts) ==
    IF pts = <<>> THEN AABBEmpty
    ELSE FoldEnclose(AABBNew(Head(pts), PairBoth(1)), Tail(pts))

over_points(pts) ==
    IF pts = <<>> THEN AABBEmpty
    ELSE FoldEnclose(AABBNew(Head(pts), PairZero), Tail(pts))

around(p, dim) ==
    LET half == PairHalf(dim)
    IN  AABBNew(PairAdd(p, PairNeg(half)), dim)

(***************************************************************************)
(* space.rs: QuadTreeNode.  A node is [bound, children, data, max_data];   *)
(* children is <<>> (None) or <<pp, pn, np, nn>>; data holds [pt, ref].    *)
(* add_pt and subdivide return [ok, node, panic]: the bool the code        *)
(* returns, the node afterwards, and whether the call panicked.            *)
(***************************************************************************)
DEFAULT_QUAD_SIZE == 4

QuadTreeBuild(bound, max_data) ==
    [bound |-> bound, children |-> <<>>, data |-> <<>>, max_data |-> max_data]

derive_child(node, bound) == QuadTreeBuild(bound, node.max_data)

\* QuadTreeChildrenIterMut::next adds one to index before and after the
\* match, so the indices it yields are 1 (pp) and 3 (np)
IterMutStride == 2
IterMutOrder ==
    LET RECURSIVE Visit(_)
        Visit(index) ==
            IF index + 1 > 4 THEN <<>>
            ELSE <<index + 1>> \o Visit(index + IterMutStride)
    IN  Visit(0)

Panicked(node) == [ok |-> FALSE, node |-> node, panic |-> TRUE]

\* faulty variant: a full leaf takes the point all the same
add_pt_NoSplit(node, datum) ==
    IF ~contains(node.bound, datum.pt)
    THEN [ok |-> FALSE, node |-> node, panic |-> FALSE]
    ELSE [ok |-> TRUE, node |-> [node EXCEPT !.data = Append(node.data, datum)],
          panic |-> FALSE]

RECURSIVE add_pt(_, _), subdivide(_), AnyChildAddPt(_, _, _)

\* children.iter_mut().any(move |child| child.add_pt(d.borrow_mut().take().unwrap()))
\* on the children `order` still to visit; `slot` is the RefCell<Option<datum>>.
\* Returns [ok, node (the children), panic].
AnyChildAddPt(children, order, slot) ==
    IF order = <<>> THEN [ok |-> FALSE, node |-> children, panic |-> FALSE]
    ELSE IF slot.none THEN Panicked(children)   \* unwrap() of a taken datum
    ELSE LET i == Head(order)
             r == add_pt(children[i], slot.val)
         IN  IF r.panic THEN Panicked(children)
             ELSE IF r.ok
             THEN [ok |-> TRUE, node |-> [children EXCEPT ![i] = r.node], panic |-> FALSE]
             ELSE AnyChildAddPt([children EXCEPT ![i] = r.node], Tail(order), None)

RECURSIVE Redistribute(_, _)
\* for datum in self.data.drain(..) { if !children.iter_mut().any(..) { panic!() } }
Redistribute(children, data) ==
    IF data = <<>> THEN [ok |-> TRUE, node |-> children, panic |-> FALSE]
    ELSE LET r == AnyChildAddPt(children, IterMutOrder, Some(Head(data)))
         IN  IF r.panic \/ ~r.ok THEN Panicked(children)
             ELSE Redistribute(r.node, Tail(data))

subdivide(node) ==
    LET halfdim == PairHalf(node.bound.dim)
        midp == PairAdd(node.bound.org, halfdim)
        children == <<
            derive_child(node, AABBNew(midp, halfdim)),
            derive_child(node, AABBNew(Pair(midp.x, node.bound.org.y), halfdim)),
            derive_child(node, AABBNew(Pair(node.bound.org.x, midp.y), halfdim)),
            derive_child(node, AABBNew(node.bound.org, halfdim)) >>
        r == Redistribute(children, node.data)
    IN  IF r.panic THEN Panicked(node)
        ELSE [ok |-> TRUE, node |-> [node EXCEPT !.children = r.node, !.data = <<>>],
              panic |-> FALSE]

add_pt(node, datum) ==
    IF ~contains(node.bound, datum.pt)
    THEN [ok |-> FALSE, node |-> node, panic |-> FALSE]
    ELSE LET s == IF Len(node.data) >= node.max_data
                  THEN subdivide(node)
                  ELSE [ok |-> TRUE, node |-> node, panic |-> FALSE]
         IN  IF s.panic THEN Panicked(node)
             ELSE IF s.node.children # <<>>
             THEN LET r == AnyChildAddPt(s.node.children, IterMutOrder, Some(datum))
                  IN  IF r.panic \/ ~r.ok THEN Panicked(node)
                      ELSE [ok |-> TRUE, node |-> [s.node EXCEPT !.children = r.node],
                            panic |-> FALSE]
             ELSE [ok |-> TRUE,
                   node |-> [s.node EXCEPT !.data = Append(s.node.data, datum)],
                   panic |-> FALSE]

\* QuadTreeQueryIterator, run to its end (collect): the data it yields, in order.
\* index is never reset when a node is popped.
RECURSIVE QueryRun(_, _, _)
QueryRun(stack, index, q) ==
    IF stack = <<>> THEN <<>>
    ELSE LET top == stack[Len(stack)]
             hits == SelectSeq(SubSeq(top.data, index + 1, Len(top.data)),
                               LAMBDA d : contains(q, d.pt))
             index2 == IF index < Len(top.data) THEN Len(top.data) ELSE index
             popped == SubSeq(stack, 1, Len(stack) - 1)
             pushed == SelectSeq(top.children,
                                 LAMBDA c : is_some(intersect(q, c.bound)))
         IN  hits \o QueryRun(popped \o pushed, index2, q)

query(node, b) == QueryRun(<<node>>, 0, b)

(***************************************************************************)
(* vm.rs: Upcall and the VM as the tank loop sees it.  The guest is a      *)
(* WebAssembly program run by the wasmi interpreter; the model keeps of it *)
(* the set `prog` of host calls it may make (Trap: it traps or returns),   *)
(* the instruction counter, and VMState with the upcall's result slot.     *)
(***************************************************************************)
Upcall(k, h, h2) == [k |-> k, h |-> h, h2 |-> h2]
UNone    == Upcall("None", 0, 0)
UFire    == Upcall("Fire", 0, 0)
UForward == Upcall("Forward", 0, 0)
UExplode == Upcall("Explode", 0, 0)
UGPSX    == Upcall("GPSX", 0, 0)
UGPSY    == Upcall("GPSY", 0, 0)
UTemp    == Upcall("Temp", 0, 0)
UAim(h)  == Upcall("Aim", h, 0)
UTurn(h) == Upcall("Turn", h, 0)
UScan(lo, hi) == Upcall("Scan", lo, hi)
GuestTrap == Upcall("Trap", 0, 0)

alters_world(uc) ==
    CASE uc.k = "None"    -> FALSE
      [] uc.k = "Scan"    -> FALSE
      [] uc.k = "Fire"    -> TRUE
      [] uc.k = "Aim"     -> TRUE
      [] uc.k = "Turn"    -> TRUE
      [] uc.k = "GPSX"    -> FALSE
      [] uc.k = "GPSY"    -> FALSE
      [] uc.k = "Temp"    -> FALSE
      [] uc.k = "Forward" -> TRUE
      [] uc.k = "Explode" -> TRUE

VMReady == [tag |-> "Ready", uc |-> UNone, slot |-> None]
VMWaiting(uc) == [tag |-> "Waiting", uc |-> uc, slot |-> None]

VMNew(prog) ==
    [counter |-> 0, state |-> VMReady, halted |-> FALSE, val |-> None, prog |-> prog,
     why |-> "new"]

begin_step(vm) == [vm EXCEPT !.counter = 0]

\* the value run_until passes to resume_execution_until; [panic] when the
\* slot of a value-returning upcall is empty (expect)
ResumeValue(st) ==
    IF st.tag = "Waiting" /\ st.uc.k \in {"Scan", "GPSX", "GPSY", "Temp"}
    THEN [panic |-> st.slot.none, val |-> st.slot]
    ELSE [panic |-> FALSE, val |-> None]

\* faulty variant: running out of budget counts as a trap of the guest
run_until_BudgetTraps(vm, max_count) ==
    LET rv == ResumeValue(vm.state)
        resumed == [vm EXCEPT !.state = VMReady, !.val = rv.val, !.why = "budget"]
    IN  IF rv.panic THEN {[uc |-> UNone, vm |-> vm, panic |-> TRUE]}
        ELSE IF vm.halted
        THEN {[uc |-> UExplode, vm |-> [resumed EXCEPT !.why = "trap"], panic |-> FALSE]}
        ELSE IF vm.counter >= max_count
        THEN {[uc |-> UExplode, vm |-> [resumed EXCEPT !.halted = TRUE], panic |-> FALSE]}
        ELSE {[uc |-> UExplode,
               vm |-> [resumed EXCEPT !.counter = max_count, !.halted = TRUE],
               panic |-> FALSE]}
             \cup
             {[uc |-> IF u = GuestTrap THEN UExplode ELSE u,
               vm |-> IF u = GuestTrap
                      THEN [resumed EXCEPT !.counter = c, !.halted = TRUE, !.why = "trap"]
                      ELSE [resumed EXCEPT !.counter = c, !.state = VMWaiting(u),
                                           !.why = "host"],
               panic |-> FALSE] : u \in vm.prog, c \in (vm.counter + 1)..max_count}

\* VM::run_until(Some(max_count)): the set of [uc, vm, panic] it may end in; vm.why
\* tells the arm of the match on the result that was taken: "budget"
\* (TooManyInstructions), "host" (a host call), "trap" (any other trap or a return)
run_until(vm, max_count) ==
    LET rv == ResumeValue(vm.state)
        resumed == [vm EXCEPT !.state = VMReady, !.val = rv.val, !.why = "budget"]
    IN  IF rv.panic THEN {[uc |-> UNone, vm |-> vm, panic |-> TRUE]}
        ELSE IF vm.halted
        THEN {[uc |-> UExplode, vm |-> [resumed EXCEPT !.why = "trap"], panic |-> FALSE]}
        ELSE IF vm.counter >= max_count
        THEN {[uc |-> UNone, vm |-> resumed, panic |-> FALSE]}
        ELSE {[uc |-> UNone, vm |-> [resumed EXCEPT !.counter = max_count],
               panic |-> FALSE]}
             \cup
             {[uc |-> IF u = GuestTrap THEN UExplode ELSE u,
               vm |-> IF u = GuestTrap
                      THEN [resumed EXCEPT !.counter = c, !.halted = TRUE, !.why = "trap"]
                      ELSE [resumed EXCEPT !.counter = c, !.state = VMWaiting(u),
                                           !.why = "host"],
               panic |-> FALSE] : u \in vm.prog, c \in (vm.counter + 1)..max_count}

(***************************************************************************)
(* sim.rs: TankState, Tank                                                 *)
(***************************************************************************)
Dead == [tag |-> "Dead", uc |-> UNone]
Free == [tag |-> "Free", uc |-> UNone]
Pending(uc) == [tag |-> "Pending", uc |-> uc]

\* faulty variant: the (Dead, Dead) arm is missing
TankStateEq_NoDeadArm(a, b) ==
    CASE a.tag = "Free" /\ b.tag = "Free" -> TRUE
      [] OTHER -> FALSE

\* impl PartialEq for TankState
TankStateEq(a, b) ==
    CASE a.tag = "Dead" /\ b.tag = "Dead" -> TRUE
      [] a.tag = "Free" /\ b.tag = "Free" -> TRUE
      [] OTHER -> FALSE

\* faulty variant: every state differs from every state
TankStateNe_Always(a, b) == TRUE

TankStateNe(a, b) == ~TankStateEq(a, b)

\* Tank::new is not part of the sources at hand
NewTank(pos, team, aim, prog, cfg) ==
    [pos |-> pos, instrs_per_step |-> cfg.instrs_per_step, aim |-> aim, angle |-> aim,
     team |-> team, temp |-> 0, vm |-> VMNew(prog), state |-> Free, timer |-> 0]

\* faulty variant: the floor at 0 is missing
apply_heat_NoFloor(t, heat) == [t EXCEPT !.temp = saturating_add(t.temp, heat)]

apply_heat(t, heat) ==
    LET s == saturating_add(t.temp, heat)
    IN  [t EXCEPT !.temp = IF s < 0 THEN 0 ELSE s]

\* fn timer inside Tank::step
\* faulty variant: every upcall has a timer
timer_Any(uc, instrs_per_step) == Some(<<0, instrs_per_step>>)

timer(uc, instrs_per_step) ==
    IF alters_world(uc) THEN Some(<<0, instrs_per_step>>) ELSE None

\* faulty variant: the bullet starts at the tank itself
NewBullet_AtTank(t, cfg) ==
    [pos |-> t.pos, vel |-> PairScale(polar(t.aim), cfg.bullet_v), dead |-> FALSE]

NewBullet(t, cfg) ==
    [pos |-> PairAdd(t.pos, PairScale(polar(t.aim), cfg.bullet_s)),
     vel |-> PairScale(polar(t.aim), cfg.bullet_v),
     dead |-> FALSE]

Explosion(pos, rad) == [pos |-> pos, rad |-> rad]

\* faulty variant: the cooldown timers are not decremented
TurnBegin_NoDecrement(t, cfg) ==
    LET h == apply_heat(t, cfg.idle_heat)
    IN  [h EXCEPT !.vm = begin_step(h.vm)]

\* Tank::step up to the loop
TurnBegin(t, cfg) ==
    LET h == apply_heat(t, cfg.idle_heat)
    IN  [h EXCEPT !.vm = begin_step(h.vm),
                  !.timer = saturating_sub_usize(h.timer, h.instrs_per_step)]

\* faulty variant: the timer is stamped with the counter alone, without maxtime
Cooldown_NoStamp(t, uc) ==
    LET tm == timer(uc, t.instrs_per_step)
    IN  IF tm.none THEN [tank |-> t, deferred |-> FALSE]
        ELSE IF t.timer >= t.instrs_per_step
        THEN [tank |-> [t EXCEPT !.state = Pending(uc)], deferred |-> TRUE]
        ELSE LET counter == Max(t.timer, t.vm.counter)
             IN  [tank |-> [t EXCEPT !.vm.counter = counter, !.timer = counter],
                  deferred |-> FALSE]

\* faulty variant: the counter is not raised to the timer before the stamp
Cooldown_NoRaise(t, uc) ==
    LET tm == timer(uc, t.instrs_per_step)
    IN  IF tm.none THEN [tank |-> t, deferred |-> FALSE]
        ELSE IF t.timer >= t.instrs_per_step
        THEN [tank |-> [t EXCEPT !.state = Pending(uc)], deferred |-> TRUE]
        ELSE [tank |-> [t EXCEPT !.timer = t.vm.counter + tm.val[2]],
              deferred |-> FALSE]

\* the cooldown match of the loop: [tank, deferred]
Cooldown(t, uc) ==
    LET tm == timer(uc, t.instrs_per_step)
    IN  IF tm.none THEN [tank |-> t, deferred |-> FALSE]
        ELSE IF t.timer >= t.instrs_per_step
        THEN [tank |-> [t EXCEPT !.state = Pending(uc)], deferred |-> TRUE]
        ELSE LET counter == Max(t.timer, t.vm.counter)
             IN  [tank |-> [t EXCEPT !.vm.counter = counter,
                                     !.timer = counter + tm.val[2]],
                  deferred |-> FALSE]

\* faulty variant: the Temp arm leaves the result slot empty
Dispatch_NoTemp(t, uc, cfg) ==
    LET out(tank, bs, q, next) ==
            [tank |-> tank, bullets |-> bs, queue |-> q, next |-> next]
    IN  CASE uc.k = "Scan"    -> out(t, <<>>, <<>>, "locked")
          [] uc.k = "Fire"    -> out(apply_heat(t, cfg.shoot_heat), <<NewBullet(t, cfg)>>,
                                     <<>>, "loop")
          [] uc.k = "Aim"     -> out([t EXCEPT !.aim = uc.h], <<>>, <<>>, "loop")
          [] uc.k = "Turn"    -> out([t EXCEPT !.angle = uc.h], <<>>, <<>>, "loop")
          [] uc.k = "GPSX"    -> out([t EXCEPT !.vm.state.slot = Some(t.pos.x)],
                                     <<>>, <<>>, "loop")
          [] uc.k = "GPSY"    -> out([t EXCEPT !.vm.state.slot = Some(t.pos.y)],
                                     <<>>, <<>>, "loop")
          [] uc.k = "Temp"    -> out(t, <<>>, <<>>, "loop")
          [] uc.k = "Forward" -> out([t EXCEPT !.pos = PairAdd(t.pos,
                                         PairScale(polar(t.angle), cfg.tank_v))],
                                     <<>>, <<>>, "loop")
          [] uc.k = "Explode" -> out(t, <<>>, <<Explosion(t.pos, cfg.explode_rad)>>,
                                     "break")
          [] uc.k = "None"    -> out(t, <<>>, <<>>, "break")

\* the dispatch match of the loop: the tank afterwards, what is pushed on the
\* bullet list and on the action queue, and how the loop goes on:
\* "loop", "break", or "locked" (World::scan takes a read lock on every tank of
\* the list, the stepping tank included, which World::step holds write-locked)
Dispatch(t, uc, cfg) ==
    LET out(tank, bs, q, next) ==
            [tank |-> tank, bullets |-> bs, queue |-> q, next |-> next]
    IN  CASE uc.k = "Scan"    -> out(t, <<>>, <<>>, "locked")
          [] uc.k = "Fire"    -> out(apply_heat(t, cfg.shoot_heat), <<NewBullet(t, cfg)>>,
                                     <<>>, "loop")
          [] uc.k = "Aim"     -> out([t EXCEPT !.aim = uc.h], <<>>, <<>>, "loop")
          [] uc.k = "Turn"    -> out([t EXCEPT !.angle = uc.h], <<>>, <<>>, "loop")
          [] uc.k = "GPSX"    -> out([t EXCEPT !.vm.state.slot = Some(t.pos.x)],
                                     <<>>, <<>>, "loop")
          [] uc.k = "GPSY"    -> out([t EXCEPT !.vm.state.slot = Some(t.pos.y)],
                                     <<>>, <<>>, "loop")
          [] uc.k = "Temp"    -> out([t EXCEPT !.vm.state.slot = Some(t.temp)],
                                     <<>>, <<>>, "loop")
          [] uc.k = "Forward" -> out([t EXCEPT !.pos = PairAdd(t.pos,
                                         PairScale(polar(t.angle), cfg.tank_v))],
                                     <<>>, <<>>, "loop")
          [] uc.k = "Explode" -> out(t, <<>>, <<Explosion(t.pos, cfg.explode_rad)>>,
                                     "break")
          [] uc.k = "None"    -> out(t, <<>>, <<>>, "break")

\* faulty variant: a tank exactly at death_heat is not too hot
Overheated_Strict(t, cfg) == t.temp > cfg.death_heat

\* the test after the loop
Overheated(t, cfg) == t.temp >= cfg.death_heat

\* one pass of the loop body after the upcall is obtained
LoopBody(t, uc, cfg) ==
    LET cd == Cooldown(t, uc)
    IN  IF cd.deferred
        THEN [tank |-> cd.tank, bullets |-> <<>>, queue |-> <<>>, next |-> "break",
              altering |-> FALSE, uc |-> uc]
        ELSE LET d == Dispatch(cd.tank, uc, cfg)
             IN  [tank |-> d.tank, bullets |-> d.bullets, queue |-> d.queue,
                  next |-> d.next, altering |-> alters_world(uc), uc |-> uc]

(***************************************************************************)
(* sim.rs: World                                                           *)
(***************************************************************************)
\* faulty variant: any instead of all
finished_Any == \E i \in 1..Len(tanks) : TankStateEq(tanks[i].state, Dead)

finished == \A i \in 1..Len(tanks) : TankStateEq(tanks[i].state, Dead)

\* faulty variant: a tank at the very centre is spared
do_explode_SparesCentre(ts, pos, rad) ==
    [i \in 1..Len(ts) |->
        IF limag(PairAdd(ts[i].pos, PairNeg(pos))) <= rad /\ ts[i].pos # pos
        THEN [ts[i] EXCEPT !.state = Dead]
        ELSE ts[i]]

do_explode(ts, pos, rad) ==
    [i \in 1..Len(ts) |->
        IF limag(PairAdd(ts[i].pos, PairNeg(pos))) <= rad
        THEN [ts[i] EXCEPT !.state = Dead]
        ELSE ts[i]]

\* faulty variant: Dead tanks are left out of the count
scan_SkipDead(ts, pos, tm, bounds) ==
    LET hit(i) == /\ InBounds(ang(PairAdd(ts[i].pos, PairNeg(pos))), bounds)
                  /\ ts[i].state # Dead
    IN  [us   |-> Cardinality({i \in 1..Len(ts) : hit(i) /\ ts[i].team = tm}),
         them |-> Cardinality({i \in 1..Len(ts) : hit(i) /\ ts[i].team # tm})]

\* World::scan: the filter on the angle, then the fold over the tanks in list order
scan(ts, pos, tm, bounds) ==
    LET RECURSIVE Fold(_, _)
        Fold(acc, i) ==
            IF i > Len(ts) THEN acc
            ELSE IF ~InBounds(ang(PairAdd(ts[i].pos, PairNeg(pos))), bounds)
            THEN Fold(acc, i + 1)
            ELSE IF ts[i].team = tm
            THEN Fold([acc EXCEPT !.us = @ + 1], i + 1)
            ELSE Fold([acc EXCEPT !.them = @ + 1], i + 1)
    IN  Fold([us |-> 0, them |-> 0], 1)

\* ((us as u64) << 32) | them as u64, kept as its two 32-bit halves
Pack(c) == [hi |-> c.us, lo |-> c.them]

\* faulty variant: if let instead of while let: one action is popped
DrainQueue_Once(ts, queue) ==
    IF queue = <<>> THEN [tanks |-> ts, queue |-> queue]
    ELSE LET action == queue[Len(queue)]
         IN  [tanks |-> do_explode(ts, action.pos, action.rad),
              queue |-> SubSeq(queue, 1, Len(queue) - 1)]

\* while let Some(action) = queue.pop() { self.do_explode(pos, rad) }
\* Returns [tanks, queue] as the loop leaves them.
RECURSIVE DrainQueue(_, _)
DrainQueue(ts, queue) ==
    IF queue = <<>> THEN [tanks |-> ts, queue |-> queue]
    ELSE LET action == queue[Len(queue)]
         IN  DrainQueue(do_explode(ts, action.pos, action.rad),
                        SubSeq(queue, 1, Len(queue) - 1))

TankRef(i) == [kind |-> "Tank", idx |-> i]
BulletRef(j) == [kind |-> "Bullet", idx |-> j]
NoTree == QuadTreeBuild(AABBEmpty, 0)

\* the points of the world in the order World::step chains them
WorldData(ts, bs) ==
    [i \in 1..Len(ts) |-> [pt |-> ts[i].pos, ref |-> TankRef(i)]]
    \o [j \in 1..Len(bs) |-> [pt |-> bs[j].pos, ref |-> BulletRef(j)]]

RECURSIVE AddAll(_, _)
\* root.add_pt(..) for each entity; the bool it returns is dropped
AddAll(node, data) ==
    IF data = <<>> THEN [ok |-> TRUE, node |-> node, panic |-> FALSE]
    ELSE LET r == add_pt(node, Head(data))
         IN  IF r.panic THEN r ELSE AddAll(r.node, Tail(data))

BuildRoot(ts, bs) ==
    LET data == WorldData(ts, bs)
        bound == over_points([k \in 1..Len(data) |-> data[k].pt])
    IN  AddAll(QuadTreeBuild(bound, DEFAULT_QUAD_SIZE), data)

\* the entities tank i's query finds
Found(node, t, cfg) == query(node, around(t.pos, PairBoth(cfg.hit_rad)))

IsLive(ref, ts, bs) ==
    IF ref.kind = "Tank" THEN TankStateNe(ts[ref.idx].state, Dead)
    ELSE ~bs[ref.idx].dead

AnyLive(v, ts, bs) == \E k \in 1..Len(v) : IsLive(v[k].ref, ts, bs)

Refs(v) == {v[k].ref : k \in 1..Len(v)}

KillTanks(ts, refs) ==
    [i \in 1..Len(ts) |->
        IF TankRef(i) \in refs THEN [ts[i] EXCEPT !.state = Dead] ELSE ts[i]]

KillBullets(bs, refs) ==
    [j \in 1..Len(bs) |->
        IF BulletRef(j) \in refs THEN [bs[j] EXCEPT !.dead = TRUE] ELSE bs[j]]

\* faulty variant: the filter is missing
Compacted_KeepAll(bs) == bs

Compacted(bs) == SelectSeq(bs, LAMBDA b : ~b.dead)

\* tanks that go from Pending to Dead between two tank lists
NewlyLost(ts, ts2) ==
    {i \in 1..Len(ts) : ts[i].state.tag = "Pending" /\ ts2[i].state.tag = "Dead"}

\* no library call is under way
NoCall == [fn |-> "none"]

(***************************************************************************)
(* Initial worlds.  Configuration's fields are public and set before       *)
(* build(); SmallConfig keeps the signs and the order of the default       *)
(* values on a small scale, WarmConfig heats an idle tank.                 *)
(***************************************************************************)
DefaultConfig ==
    [shoot_heat |-> 26, idle_heat |-> -2, move_heat |-> -2, death_heat |-> 300,
     instrs_per_step |-> 30, bullet_v |-> 5, bullet_s |-> 30, hit_rad |-> 10,
     tank_v |-> 1, explode_rad |-> 50]

SmallConfig ==
    [shoot_heat |-> 3, idle_heat |-> -1, move_heat |-> -1, death_heat |-> 5,
     instrs_per_step |-> 3, bullet_v |-> 1, bullet_s |-> 2, hit_rad |-> 2,
     tank_v |-> 1, explode_rad |-> 2]

WarmConfig == [SmallConfig EXCEPT !.idle_heat = 2, !.death_heat = 4]

ProgYield   == {UNone}
ProgFire    == {UFire}
ProgGunner  == {UAim(1), UFire, UNone}
ProgDriver  == {UForward, UTurn(2), UNone}
ProgSuicide == {UExplode, UNone}
ProgSensor  == {UGPSX, UGPSY, UTemp, UFire}
ProgScanner == {UScan(0, 2), UNone}
ProgCrash   == {GuestTrap, UNone}
ProgShooter == {UAim(0), UFire, UNone}

\* [config, tanks as <<pos, team, aim, prog>>]
Scenarios ==
    { [config |-> SmallConfig, tanks |-> <<>>],
      [config |-> SmallConfig, tanks |-> << <<Pair(0, 0), 0, 0, ProgFire>> >>],
      [config |-> SmallConfig, tanks |-> << <<Pair(4, 1), 0, 0, ProgSensor>> >>],
      [config |-> SmallConfig, tanks |-> << <<Pair(0, 0), 0, 0, ProgYield>>,
                                            <<Pair(1, 0), 1, 0, ProgYield>> >>],
      [config |-> SmallConfig, tanks |-> << <<Pair(3, 3), 0, 0, ProgDriver>>,
                                            <<Pair(-4, 0), 1, 0, ProgYield>> >>],
      [config |-> SmallConfig, tanks |-> << <<Pair(2, 2), 0, 0, ProgGunner>>,
                                            <<Pair(5, 2), 1, 2, ProgFire>> >>],
      [config |-> SmallConfig, tanks |-> << <<Pair(1, 1), 0, 0, ProgSuicide>>,
                                            <<Pair(2, 1), 1, 2, ProgGunner>> >>],
      [config |-> SmallConfig, tanks |-> << <<Pair(0, 0), 0, 0, ProgCrash>>,
                                            <<Pair(6, 0), 1, 0, ProgScanner>> >>],
      [config |-> WarmConfig,  tanks |-> << <<Pair(0, 0), 0, 0, ProgSuicide>> >>],
      [config |-> SmallConfig, tanks |-> << <<Pair(0, 0), 0, 0, ProgShooter>>,
                                            <<Pair(6, 0), 1, 0, ProgYield>> >>],
      [config |-> SmallConfig, tanks |-> << <<Pair(0, 0), 0, 0, ProgSuicide>>,
                                            <<Pair(-9, -9), 1, 0, ProgYield>>,
                                            <<Pair(3, 0), 1, 0, ProgYield>> >>],
      [config |-> DefaultConfig, tanks |-> << <<Pair(75, 0), 0, 0, ProgYield>> >>],
      [config |-> DefaultConfig, tanks |-> << <<Pair(0, 0), 0, 0, ProgFire>> >>],
      [config |-> SmallConfig, tanks |-> << <<Pair(0, 0), 0, 0, ProgFire>>,
                                            <<Pair(6, 0), 1, 2, ProgFire>> >>] }

\* TankServer::new, and main up to its loop
ServerInit ==
    /\ acceptor = "accept"
    /\ next_team = 0
    /\ cl = <<>>
    /\ chan = <<>>
    /\ main = "check"
    /\ client_count = 0
    /\ got = <<>>
    /\ tick0 = 0

\* the world built from the scenario sc, before its first step
InitWith(sc) ==
        /\ config = sc.config
        /\ tanks = [i \in 1..Len(sc.tanks) |->
                       NewTank(sc.tanks[i][1], sc.tanks[i][2], sc.tanks[i][3],
                               sc.tanks[i][4], sc.config)]
        /\ bullets = <<>>
        /\ action_queue = <<>>
        /\ root = NoTree
        /\ pc = "idle"
        /\ cur = 0
        /\ tick = 0
        /\ disp = [i \in 1..Len(sc.tanks) |-> 0]
        /\ runs = 0
        /\ upcall = UNone
        /\ live0 = {}
        /\ marked = {}
        /\ lost = {}
        /\ drained = <<>>
        /\ exploded = {}
        /\ fired = {}
        /\ stamp = {}
        /\ ServerInit
        /\ call = NoCall
        /\ ret = None

Init == \E sc \in Scenarios : InitWith(sc)

(***************************************************************************)
(* World::step, one action per step of its loops                           *)
(***************************************************************************)
StartStep ==
    /\ pc = "idle"
    /\ tick < MaxTicks
    /\ pc' = "tanks"
    /\ cur' = 1
    /\ disp' = [i \in 1..Len(tanks) |-> 0]
    /\ runs' = 0
    /\ live0' = {}
    /\ marked' = {}
    /\ exploded' = {}
    /\ fired' = {}
    /\ UNCHANGED <<call, ret, server, stamp, config, tanks, bullets, action_queue, root, tick, upcall, lost, drained>>

\* for t in tanks: a Dead tank is passed over
TankSkip ==
    /\ pc = "tanks"
    /\ cur <= Len(tanks)
    /\ ~TankStateNe(tanks[cur].state, Dead)
    /\ cur' = cur + 1
    /\ UNCHANGED <<call, ret, server, exploded, fired, stamp, config, tanks, bullets, action_queue, root, pc, tick, disp, runs, upcall,
                   live0, marked, lost, drained>>

\* t.write().unwrap().step(&self), up to the loop
TankBegin ==
    /\ pc = "tanks"
    /\ cur <= Len(tanks)
    /\ TankStateNe(tanks[cur].state, Dead)
    /\ tanks' = [tanks EXCEPT ![cur] = TurnBegin(tanks[cur], config)]
    /\ pc' = "turn"
    /\ runs' = 0
    /\ UNCHANGED <<call, ret, server, exploded, fired, stamp, config, bullets, action_queue, root, cur, tick, disp, upcall,
                   live0, marked, lost, drained>>

\* faulty variant: the pass replaces the bullet list by the bullets it made
LoopEffect_Clobber(r) ==
    /\ tanks' = [tanks EXCEPT ![cur] = r.tank]
    /\ bullets' = r.bullets
    /\ action_queue' = action_queue \o r.queue
    /\ disp' = [disp EXCEPT ![cur] = @ + (IF r.altering THEN 1 ELSE 0)]
    /\ exploded' = IF r.altering /\ r.uc.k = "Explode" THEN exploded \cup {cur} ELSE exploded
    /\ fired' = IF r.altering /\ r.uc.k = "Fire"
                THEN fired \cup {[idx |-> 1, p |-> tanks[cur].pos, a |-> tanks[cur].aim]}
                ELSE fired
    /\ stamp' = IF r.altering
                THEN {st \in stamp : st.i # cur}
                     \cup {[i |-> cur, tick |-> tick, counter |-> r.tank.vm.counter]}
                ELSE stamp
    /\ pc' = CASE r.next = "loop"  -> "turn"
               [] r.next = "break" -> "after"
               [] OTHER            -> "locked"

\* what one pass of the loop leaves behind
LoopEffect(r) ==
    /\ tanks' = [tanks EXCEPT ![cur] = r.tank]
    /\ bullets' = bullets \o r.bullets
    /\ action_queue' = action_queue \o r.queue
    /\ disp' = [disp EXCEPT ![cur] = @ + (IF r.altering THEN 1 ELSE 0)]
    /\ exploded' = IF r.altering /\ r.uc.k = "Explode" THEN exploded \cup {cur} ELSE exploded
    /\ fired' = IF r.altering /\ r.uc.k = "Fire"
                THEN fired \cup {[idx |-> Len(bullets) + 1, p |-> tanks[cur].pos,
                                  a |-> tanks[cur].aim]}
                ELSE fired
    /\ stamp' = IF r.altering
                THEN {st \in stamp : st.i # cur}
                     \cup {[i |-> cur, tick |-> tick, counter |-> r.tank.vm.counter]}
                ELSE stamp
    /\ pc' = CASE r.next = "loop"  -> "turn"
               [] r.next = "break" -> "after"
               [] OTHER            -> "locked"

\* a pass of the loop in state Free: the upcall comes from run_until
TankResume ==
    /\ pc = "turn"
    /\ tanks[cur].state.tag = "Free"
    /\ \E o \in run_until(tanks[cur].vm, tanks[cur].instrs_per_step) :
          IF o.panic
          THEN /\ pc' = "panicked"
               /\ UNCHANGED <<tanks, bullets, action_queue, disp, upcall, exploded, fired, stamp>>
          ELSE /\ upcall' = o.uc
               /\ LoopEffect(LoopBody([tanks[cur] EXCEPT !.vm = o.vm], o.uc, config))
    /\ runs' = runs + 1
    /\ UNCHANGED <<call, ret, server, config, root, cur, tick, live0, marked, lost, drained>>

\* a pass of the loop in state Pending (the upcall is taken out of the state
\* and the tank is Free) or Dead (break)
TankTake ==
    /\ pc = "turn"
    /\ tanks[cur].state.tag # "Free"
    /\ IF tanks[cur].state.tag = "Dead"
       THEN /\ pc' = "after"
            /\ UNCHANGED <<tanks, bullets, action_queue, disp, upcall, exploded, fired, stamp>>
       ELSE /\ upcall' = tanks[cur].state.uc
            /\ LoopEffect(LoopBody([tanks[cur] EXCEPT !.state = Free],
                                   tanks[cur].state.uc, config))
    /\ UNCHANGED <<call, ret, server, config, root, cur, tick, runs, live0, marked, lost, drained>>

\* faulty variant: the overheating explosion is applied at once, not queued
TankEnd_Immediate ==
    /\ pc = "after"
    /\ tanks' =
          IF Overheated(tanks[cur], config)
          THEN DrainQueue(tanks, <<Explosion(tanks[cur].pos, config.explode_rad)>>).tanks
          ELSE tanks
    /\ pc' = "tanks"
    /\ cur' = cur + 1
    /\ UNCHANGED <<call, ret, server, exploded, fired, stamp, config, action_queue, bullets, root, tick, disp, runs,
                   upcall, live0, marked, lost, drained>>

\* after the loop: the overheating check
TankEnd ==
    /\ pc = "after"
    /\ action_queue' =
          IF Overheated(tanks[cur], config)
          THEN Append(action_queue, Explosion(tanks[cur].pos, config.explode_rad))
          ELSE action_queue
    /\ pc' = "tanks"
    /\ cur' = cur + 1
    /\ UNCHANGED <<call, ret, server, exploded, fired, stamp, config, tanks, bullets, root, tick, disp, runs, upcall,
                   live0, marked, lost, drained>>

\* for b in bullets: b.step()
MoveBullets ==
    /\ pc = "tanks"
    /\ cur > Len(tanks)
    /\ bullets' = [j \in 1..Len(bullets) |->
                      [bullets[j] EXCEPT !.pos = PairAdd(bullets[j].pos, bullets[j].vel)]]
    /\ pc' = "build"
    /\ UNCHANGED <<call, ret, server, exploded, fired, stamp, config, tanks, action_queue, root, cur, tick, disp, runs, upcall,
                   live0, marked, lost, drained>>

\* the quadtree over all tanks and bullets
Build ==
    /\ pc = "build"
    /\ LET r == BuildRoot(tanks, bullets)
       IN  IF r.panic
           THEN /\ pc' = "panicked"
                /\ UNCHANGED <<root, cur, live0>>
           ELSE /\ root' = r.node
                /\ pc' = "sweep"
                /\ cur' = 1
                /\ live0' = {i \in 1..Len(tanks) : TankStateNe(tanks[i].state, Dead)}
    /\ UNCHANGED <<call, ret, server, exploded, fired, stamp, config, tanks, bullets, action_queue, tick, disp, runs, upcall,
                   marked, lost, drained>>

\* the collision sweep, for the tank at cur
Sweep ==
    /\ pc = "sweep"
    /\ cur <= Len(tanks)
    /\ LET v == Found(root, tanks[cur], config)
       IN  IF AnyLive(v, tanks, bullets)
           THEN /\ tanks' = KillTanks(tanks, Refs(v))
                /\ bullets' = KillBullets(bullets, Refs(v))
                /\ marked' = marked \cup {r.idx : r \in {x \in Refs(v) : x.kind = "Bullet"}}
           ELSE UNCHANGED <<tanks, bullets, marked>>
    /\ lost' = lost \cup NewlyLost(tanks, tanks')
    /\ cur' = cur + 1
    /\ UNCHANGED <<call, ret, server, exploded, fired, stamp, config, action_queue, root, pc, tick, disp, runs, upcall, live0, drained>>

\* the action queue is drained
Drain ==
    /\ pc = "sweep"
    /\ cur > Len(tanks)
    /\ tanks' = DrainQueue(tanks, action_queue).tanks
    /\ action_queue' = DrainQueue(tanks, action_queue).queue
    /\ drained' = action_queue
    /\ lost' = lost \cup NewlyLost(tanks, tanks')
    /\ pc' = "compact"
    /\ UNCHANGED <<call, ret, server, exploded, fired, stamp, config, bullets, root, cur, tick, disp, runs, upcall, live0, marked>>

\* the bullet list is compacted and step returns
Compact ==
    /\ pc = "compact"
    /\ bullets' = Compacted(bullets)
    /\ root' = NoTree
    /\ pc' = "idle"
    /\ tick' = tick + 1
    /\ UNCHANGED <<call, ret, server, exploded, fired, stamp, config, tanks, action_queue, cur, disp, runs, upcall,
                   live0, marked, lost, drained>>

Next ==
    \/ StartStep
    \/ TankSkip
    \/ TankBegin
    \/ TankResume
    \/ TankTake
    \/ TankEnd
    \/ MoveBullets
    \/ Build
    \/ Sweep
    \/ Drain
    \/ Compact

Spec == Init /\ [][Next]_vars

(***************************************************************************)
(* Properties                                                              *)
(***************************************************************************)
InLoop == pc = "turn" /\ pc' \in {"turn", "after", "locked"}

SameBody(t, t2) ==
    /\ t2.aim = t.aim
    /\ t2.angle = t.angle
    /\ t2.pos = t.pos
    /\ t2.temp = t.temp

\* C1: in one World::step a tank dispatches at most one world-altering upcall;
\* a further world-altering upcall obtained in that tick is stored as Pending and
\* changes neither the tank's aim, angle, pos and temp, nor the bullet list, nor
\* the action queue; every bullet added is added by such a dispatch, so a tank
\* adds at most one bullet per tick.
C1_OneAlteringPerTick ==
    /\ [](\A i \in 1..Len(tanks) : disp[i] <= 1)
    /\ [][ /\ (InLoop /\ disp[cur] >= 1 /\ alters_world(upcall'))
              => (/\ tanks'[cur].state = Pending(upcall')
                  /\ pc' = "after"
                  /\ SameBody(tanks[cur], tanks'[cur])
                  /\ bullets' = bullets
                  /\ action_queue' = action_queue
                  /\ disp' = disp)
           /\ (Len(bullets') > Len(bullets))
              => (/\ Len(bullets') = Len(bullets) + 1
                  /\ pc = "turn"
                  /\ disp'[cur] = disp[cur] + 1) ]_vars

C1_Witness ==
    /\ pc = "after"
    /\ disp[cur] = 1
    /\ upcall = UFire
    /\ tanks[cur].state = Pending(UFire)
    /\ Len(bullets) >= 1

\* max(0, temp + heat) with the sum cut at i32::MAX, for temp >= 0
HeatSum(temp, heat) ==
    IF heat >= 0
    THEN (IF temp >= I32Max - heat THEN I32Max ELSE temp + heat)
    ELSE (IF heat < -temp THEN 0 ELSE temp + heat)

\* what dispatching upcall u does to tank t and the world (section 4.2)
EffectApplied(u, t, t2) ==
    CASE u.k = "Fire"    -> /\ Len(bullets') = Len(bullets) + 1
                            /\ bullets'[Len(bullets')].pos =
                                  PairAdd(t.pos, PairScale(polar(t.aim), config.bullet_s))
                            /\ t2.temp = HeatSum(t.temp, config.shoot_heat)
      [] u.k = "Aim"     -> t2.aim = u.h
      [] u.k = "Turn"    -> t2.angle = u.h
      [] u.k = "Forward" -> t2.pos = PairAdd(t.pos, PairScale(polar(t.angle), config.tank_v))
      [] u.k = "Explode" -> /\ Len(action_queue') = Len(action_queue) + 1
                            /\ action_queue'[Len(action_queue')].pos = t.pos
      [] OTHER           -> FALSE

\* C2: a tank that is Pending(u) and not Dead when its turn comes is not passed
\* over; the first pass of its loop dispatches u without calling run_until and
\* leaves the tank Free; the cooldown timer after the per-tick decrement is below
\* instrs_per_step, so the upcall is not deferred again.
C2_PendingDispatchedNextTick ==
    /\ [](pc = "turn" /\ tanks[cur].state.tag = "Pending"
            => runs = 0 /\ tanks[cur].timer < tanks[cur].instrs_per_step)
    /\ [][ /\ (pc = "tanks" /\ cur <= Len(tanks) /\ tanks[cur].state.tag = "Pending")
              => (pc' = "turn" /\ tanks'[cur].state = tanks[cur].state)
           /\ (pc = "turn" /\ tanks[cur].state.tag = "Pending")
              => /\ runs' = runs
                 /\ upcall' = tanks[cur].state.uc
                 /\ disp'[cur] = disp[cur] + 1
                 /\ tanks'[cur].state = Free
                 /\ tanks'[cur].vm.state = tanks[cur].vm.state
                 /\ EffectApplied(tanks[cur].state.uc, tanks[cur], tanks'[cur]) ]_vars

C2_Witness ==
    /\ pc = "turn"
    /\ tick >= 1
    /\ runs = 0
    /\ disp[cur] = 1
    /\ upcall = UFire
    /\ tanks[cur].state = Free

\* C3: Dead is terminal: a Dead tank's record (state, pos, aim, angle, temp,
\* timer, VM) never changes again, it dispatches nothing, and bullets and
\* explosions are only ever added in the turn of a tank that is not Dead.
C3_DeadIsTerminal ==
    [][ /\ Len(tanks') = Len(tanks)
        /\ \A i \in 1..Len(tanks) :
              tanks[i].state.tag = "Dead"
                 => /\ tanks'[i] = tanks[i]
                    /\ disp'[i] <= disp[i]
        /\ (Len(bullets') > Len(bullets) \/ Len(action_queue') > Len(action_queue))
              => /\ pc \in {"turn", "after"}
                 /\ tanks[cur].state.tag # "Dead" ]_vars

C3_Witness ==
    /\ pc = "idle"
    /\ tick >= 2
    /\ \E i \in lost : tanks[i].state = Dead /\ i \notin live0

\* C4: when World::step has returned, no bullet of the bullet list is dead.
C4_NoDeadBulletAfterStep ==
    pc = "idle" => \A j \in 1..Len(bullets) : ~bullets[j].dead

C4_Witness ==
    /\ pc = "idle"
    /\ tick >= 1
    /\ marked # {}

\* C5: when World::step has returned, the action queue is empty.
C5_QueueEmptyAfterStep ==
    pc = "idle" => action_queue = <<>>

C5_Witness ==
    /\ pc = "idle"
    /\ tick >= 1
    /\ Len(tanks) = 1
    /\ Len(drained) = 2

\* C6: finished() is true exactly when every tank's state is Dead; a Pending
\* tank counts as not Dead, an empty tank list is finished.
C6_FinishedIffAllDead ==
    finished <=> \A i \in 1..Len(tanks) : tanks[i].state.tag = "Dead"

C6_Witness ==
    /\ Len(tanks) >= 2
    /\ ~finished
    /\ \E i \in 1..Len(tanks) :
          /\ tanks[i].state.tag = "Pending"
          /\ \A j \in 1..Len(tanks) : j # i => tanks[j].state.tag = "Dead"

TankView(t) ==
    [state |-> t.state, pos |-> t.pos, aim |-> t.aim, angle |-> t.angle,
     temp |-> t.temp, team |-> t.team, timers |-> t.timer]

\* C7: once finished() is true it stays true, and no later step of World::step
\* changes the number of tanks or any tank's state, pos, aim, angle, temp, team
\* or timers.
C7_FinishedIsStable ==
    [][ finished => /\ finished'
                    /\ Len(tanks') = Len(tanks)
                    /\ \A i \in 1..Len(tanks) : TankView(tanks'[i]) = TankView(tanks[i])
      ]_vars

C7_Witness ==
    /\ pc = "idle"
    /\ tick >= 2
    /\ finished
    /\ live0 = {}
    /\ Len(tanks) >= 1
    /\ \E i \in 1..Len(tanks) : tanks[i].temp > 0

(***************************************************************************)
(* Worlds whose heat configuration lies at the edges of i32                *)
(***************************************************************************)
IdleHeatSamples == {I32Min, -2, 1, I32Max}
ShootHeatSamples == {I32Min, -1, 26, I32Max - 1, I32Max}
DeathHeatSamples == {300, I32Max}

HeatInit ==
    \E ih \in IdleHeatSamples, sh \in ShootHeatSamples, dh \in DeathHeatSamples :
        /\ config = [SmallConfig EXCEPT !.idle_heat = ih, !.shoot_heat = sh,
                                        !.death_heat = dh]
        /\ tanks = <<NewTank(Pair(0, 0), 0, 0, {UFire, UTemp, UNone}, config)>>
        /\ bullets = <<>>
        /\ action_queue = <<>>
        /\ root = NoTree
        /\ pc = "idle"
        /\ cur = 0
        /\ tick = 0
        /\ disp = <<0>>
        /\ runs = 0
        /\ upcall = UNone
        /\ live0 = {}
        /\ marked = {}
        /\ lost = {}
        /\ drained = <<>>
        /\ exploded = {}
        /\ fired = {}
        /\ stamp = {}
        /\ ServerInit
        /\ call = NoCall
        /\ ret = None

SpecHeat == (Init \/ HeatInit) /\ [][Next]_vars


\* C8: every tank's temp is an i32 that is never negative, and each apply_heat
\* (idle_heat at the start of a turn, shoot_heat when Fire is dispatched) leaves
\* max(0, temp + heat), the sum saturating at the i32 bounds.
C8_HeatNeverNegative ==
    /\ [](\A i \in 1..Len(tanks) : tanks[i].temp >= 0 /\ tanks[i].temp <= I32Max)
    /\ [][ /\ (pc = "tanks" /\ pc' = "turn")
              => tanks'[cur].temp = HeatSum(tanks[cur].temp, config.idle_heat)
           /\ (Len(bullets') > Len(bullets))
              => tanks'[cur].temp = HeatSum(tanks[cur].temp, config.shoot_heat) ]_vars

C8_Witness ==
    /\ pc = "turn"
    /\ tick >= 1
    /\ config.idle_heat = I32Min
    /\ config.shoot_heat = I32Max - 1
    /\ bullets # <<>>
    /\ runs = 0
    /\ tanks[cur].temp = 0

Near(a, b, rad) ==
    /\ a.x - b.x < rad /\ b.x - a.x < rad
    /\ a.y - b.y < rad /\ b.y - a.y < rad

OthersLive(v, i) ==
    \E k \in 1..Len(v) : v[k].ref # TankRef(i) /\ IsLive(v[k].ref, tanks, bullets)

\* C9: in the collision sweep, a live tank whose query result holds no live
\* entity other than itself is not marked Dead.
C9_LoneTankSurvivesSweep ==
    [][ (/\ pc = "sweep"
         /\ cur <= Len(tanks)
         /\ TankStateNe(tanks[cur].state, Dead)
         /\ ~OthersLive(Found(root, tanks[cur], config), cur))
        => tanks'[cur].state.tag # "Dead" ]_vars

\* C10: two tanks that are live when the collision sweep begins and whose
\* positions differ by less than hit_rad on each axis are both Dead when the
\* step has returned.
C10_MutualAnnihilation ==
    (pc = "idle" /\ tick >= 1)
    => \A i, j \in live0 :
          (i # j /\ Near(tanks[i].pos, tanks[j].pos, config.hit_rad))
          => (tanks[i].state.tag = "Dead" /\ tanks[j].state.tag = "Dead")

\* the box the collision sweep queries for tank t
HitBox(t) == around(t.pos, PairBoth(config.hit_rad))

\* C11: at the end of a step at whose collision sweep a live bullet lay inside
\* the hit box of a tank that was live, that tank is Dead and the bullet is
\* gone from the bullet list.
C11_BulletHit ==
    [][ pc = "compact" =>
          \A i \in live0 : \A j \in 1..Len(bullets) :
              contains(HitBox(tanks[i]), bullets[j].pos)
              => /\ tanks'[i].state = Dead
                 /\ \A k \in 1..Len(bullets') : bullets'[k].pos # bullets[j].pos ]_vars

(***************************************************************************)
(* The library functions of space.rs and sim.rs called on their own, on    *)
(* arguments drawn from small sets: a quadtree that is filled point by     *)
(* point and queried, and AABB::intersect.  The world stays as built.      *)
(***************************************************************************)
MaxPts == 5

TreeBound == AABBNew(Pair(0, 0), Pair(4, 4))
TreePoints == {Pair(0, 0), Pair(1, 2), Pair(2, 2), Pair(3, 3), Pair(4, 4), Pair(4, 1)}
QueryBoxes ==
    { AABBNew(Pair(0, 0), Pair(4, 4)), AABBNew(Pair(2, 2), Pair(2, 2)),
      AABBNew(Pair(1, 1), Pair(2, 2)), AABBNew(Pair(5, 5), Pair(1, 1)) }

\* a tree fresh from QuadTreeBuilder::from_bound(bound).build(): node is the
\* tree, pts the data whose add_pt returned true, n the add_pt calls made, last
\* the datum of the latest call
TreeCall(bound) ==
    [fn |-> "tree", node |-> QuadTreeBuild(bound, DEFAULT_QUAD_SIZE), pts |-> <<>>,
     n |-> 0, panic |-> FALSE, last |-> None]

\* a subdivided tree written as a struct literal (the fields of QuadTreeNode and
\* of QuadTreeChildren are public): the quadrants of TreeBound as subdivide cuts
\* them, each a leaf with its points
LitLeaf(org, data) ==
    [QuadTreeBuild(AABBNew(org, Pair(2, 2)), DEFAULT_QUAD_SIZE) EXCEPT !.data = data]

LitTree ==
    [QuadTreeBuild(TreeBound, DEFAULT_QUAD_SIZE) EXCEPT !.children =
        << LitLeaf(Pair(2, 2), << [pt |-> Pair(3, 3), ref |-> 1],
                                  [pt |-> Pair(2, 2), ref |-> 2] >>),
           LitLeaf(Pair(2, 0), << [pt |-> Pair(3, 1), ref |-> 3] >>),
           LitLeaf(Pair(0, 2), << [pt |-> Pair(1, 3), ref |-> 4] >>),
           LitLeaf(Pair(0, 0), << [pt |-> Pair(0, 0), ref |-> 5],
                                  [pt |-> Pair(1, 1), ref |-> 6] >>) >>]

LitCall == [fn |-> "lit", node |-> LitTree]

Boxes ==
    { AABBNew(Pair(x, y), Pair(w, h)) : x \in {0, 2}, y \in {-1, 1}, w \in {0, 1, 3},
                                        h \in {-2, 2} }

IntersectCall(a, b) == [fn |-> "intersect", a |-> a, b |-> b]

\* tank lists as <<pos, team>>, the origins and the bounds of the scans made
ScanWorlds ==
    { << <<Pair(0, 0), 0>>, <<Pair(10, 0), 0>>, <<Pair(0, 10), 1>> >>,
      << <<Pair(1, 1), 1>>, <<Pair(-2, -2), 1>>, <<Pair(3, 0), 0>> >>,
      << <<Pair(2, 0), 0>>, <<Pair(-1, 0), 1>>, <<Pair(0, -3), 0>>, <<Pair(4, -1), 1>> >>,
      << <<Pair(-3, 2), 0>> >> }
ScanOrigins == {Pair(0, 0), Pair(1, 1), Pair(2, 0)}
ScanBounds == {<<0, 4>>, <<0, 1>>, <<0, 2>>, <<1, 2>>, <<2, 3>>, <<0, 0>>, <<1, 0>>}

ScanCall(w, dead, pos, tm, bounds) ==
    [fn |-> "scan",
     tanks |-> [i \in 1..Len(w) |->
                   [NewTank(w[i][1], w[i][2], 0, ProgYield, DefaultConfig)
                       EXCEPT !.state = IF i \in dead THEN Dead ELSE Free]],
     pos |-> pos, tm |-> tm, bounds |-> bounds]

PureCalls ==
    {TreeCall(TreeBound), LitCall}
    \cup {IntersectCall(a, b) : a \in Boxes, b \in Boxes}
    \cup UNION { {ScanCall(w, dead, pos, tm, b) :
                     dead \in SUBSET (1..Len(w)), pos \in ScanOrigins, tm \in {0, 1},
                     b \in ScanBounds} : w \in ScanWorlds }

PureInit ==
    /\ config = DefaultConfig
    /\ tanks = <<>>
    /\ bullets = <<>>
    /\ action_queue = <<>>
    /\ root = NoTree
    /\ pc = "idle"
    /\ cur = 0
    /\ tick = 0
    /\ disp = <<>>
    /\ runs = 0
    /\ upcall = UNone
    /\ live0 = {}
    /\ marked = {}
    /\ lost = {}
    /\ drained = <<>>
    /\ exploded = {}
    /\ fired = {}
    /\ stamp = {}
    /\ ServerInit
    /\ call \in PureCalls
    /\ ret = None

world == <<config, tanks, bullets, action_queue, root, pc, cur, tick, disp, runs, upcall,
           live0, marked, lost, drained, exploded, fired, stamp, server>>

\* node.add_pt((p, n + 1))
CallAddPt ==
    /\ call.fn = "tree"
    /\ ~call.panic
    /\ call.n < MaxPts
    /\ \E p \in TreePoints :
          LET datum == [pt |-> p, ref |-> call.n + 1]
              r == add_pt(call.node, datum)
          IN  /\ call' = [call EXCEPT !.node = r.node, !.n = @ + 1, !.panic = r.panic,
                                      !.pts = IF r.ok THEN Append(@, datum) ELSE @,
                                      !.last = Some(datum)]
              /\ ret' = Some([op |-> "add_pt", ok |-> r.ok])
    /\ UNCHANGED world

\* node.query(q).collect()
CallQuery ==
    /\ call.fn \in {"tree", "lit"}
    /\ call.fn = "tree" => ~call.panic
    /\ \E q \in QueryBoxes :
          ret' = Some([op |-> "query", q |-> q, found |-> query(call.node, q)])
    /\ UNCHANGED <<call, world>>

\* a.intersect(&b) and b.intersect(&a)
CallIntersect ==
    /\ call.fn = "intersect"
    /\ ret = None
    /\ ret' = Some([op |-> "intersect", ab |-> intersect(call.a, call.b),
                    ba |-> intersect(call.b, call.a)])
    /\ UNCHANGED <<call, world>>

\* world.scan(pos, tm, bounds), with the world's tank list as given
CallScan ==
    /\ call.fn = "scan"
    /\ ret = None
    /\ ret' = Some([op |-> "scan", counts |-> scan(call.tanks, call.pos, call.tm, call.bounds)])
    /\ UNCHANGED <<call, world>>

PureNext ==
    \/ CallAddPt
    \/ CallQuery
    \/ CallIntersect
    \/ CallScan

SpecPure == PureInit /\ [][PureNext]_vars

\* how often datum d occurs in the sequence v
Occurrences(v, d) == Cardinality({k \in 1..Len(v) : v[k] = d})

\* the query result `found` holds exactly the data of pts that lie in q, once each
Exact(pts, q, found) ==
    /\ \A k \in 1..Len(pts) :
          Occurrences(found, pts[k]) = IF contains(q, pts[k].pt) THEN 1 ELSE 0
    /\ \A k \in 1..Len(found) : \E m \in 1..Len(pts) : found[k] = pts[m]

QueryExactUnsplit ==
    (call.fn = "tree" /\ is_some(ret) /\ ret.val.op = "query")
        => Exact(call.pts, ret.val.q, ret.val.found)

\* C20: a.intersect(b) and b.intersect(a) are both None, or both Some of a box
\* with the same org and the same dim.
C20_IntersectCommutative ==
    (call.fn = "intersect" /\ is_some(ret)) =>
        /\ ret.val.ab.none = ret.val.ba.none
        /\ is_some(ret.val.ab) =>
              /\ ret.val.ab.val.org = ret.val.ba.val.org
              /\ ret.val.ab.val.dim = ret.val.ba.val.dim

C20_Witness ==
    /\ call.fn = "intersect"
    /\ is_some(ret)
    /\ call.a.org # call.b.org
    /\ call.a.dim # call.b.dim
    /\ is_some(ret.val.ab)
    /\ ret.val.ab.val.dim.x > 0
    /\ ret.val.ab.val.dim.y > 0

\* the tanks of a scan call whose angle from the origin lies in [lo, hi)
Scanned ==
    {i \in 1..Len(call.tanks) :
        InBounds(ang(PairAdd(call.tanks[i].pos, PairNeg(call.pos))), call.bounds)}

\* C17: scan counts, over every tank of the list, Dead ones and the caller
\* included, those whose angle from the origin lies in [lo, hi): friends are the
\* counted tanks of the caller's team, enemies the other counted tanks, and
\* friends + enemies is at most the number of tanks.
C17_ScanCounts ==
    (call.fn = "scan" /\ is_some(ret)) =>
        /\ ret.val.counts.us =
              Cardinality({i \in Scanned : call.tanks[i].team = call.tm})
        /\ ret.val.counts.them =
              Cardinality({i \in Scanned : call.tanks[i].team # call.tm})
        /\ ret.val.counts.us + ret.val.counts.them <= Len(call.tanks)

C17_Witness ==
    /\ call.fn = "scan"
    /\ is_some(ret)
    /\ \E i \in Scanned : call.tanks[i].state = Dead
    /\ \E i \in Scanned : call.tanks[i].pos = call.pos /\ call.tanks[i].team = call.tm
    /\ \E i \in 1..Len(call.tanks) : i \notin Scanned
    /\ ret.val.counts.us >= 2
    /\ ret.val.counts.them >= 1

\* C18: teams {0, 0, 1} at (0,0), (10,0), (0,10); the scan of the team-0 tank at
\* the origin over (0, 2*pi) reports friends = 1 and enemies = 1, packed as
\* (friends << 32) | enemies.
C18_ScanScenario ==
    ( /\ call.fn = "scan"
      /\ is_some(ret)
      /\ [i \in 1..Len(call.tanks) |-> <<call.tanks[i].pos, call.tanks[i].team>>]
            = << <<Pair(0, 0), 0>>, <<Pair(10, 0), 0>>, <<Pair(0, 10), 1>> >>
      /\ call.pos = Pair(0, 0)
      /\ call.tm = 0
      /\ call.bounds = <<0, 4>> )
    => Pack(ret.val.counts) = [hi |-> 1, lo |-> 1]

ValueUpcalls == {"Scan", "GPSX", "GPSY", "Temp"}

\* what the dispatch of the value-returning upcall uc of tank t writes to its slot
SlotValue(t, uc) ==
    CASE uc.k = "GPSX" -> t.pos.x
      [] uc.k = "GPSY" -> t.pos.y
      [] uc.k = "Temp" -> t.temp
      [] uc.k = "Scan" ->
            Pack(scan(tanks, t.pos, t.team,
                      IF uc.h < uc.h2 THEN <<uc.h, uc.h2>> ELSE <<uc.h2, uc.h>>))

\* C13: whenever run_until resumes a guest that waits on a value-returning
\* upcall, the slot of that upcall is filled, the expect on it does not fail,
\* and the value passed to the guest is the one the dispatch wrote: pos.x,
\* pos.y, temp, or the packed counts of the scan.
C13_SlotFilledOnResume ==
    [][ ( /\ pc = "turn"
          /\ runs' = runs + 1
          /\ tanks[cur].vm.state.tag = "Waiting"
          /\ tanks[cur].vm.state.uc.k \in ValueUpcalls )
        => /\ pc' # "panicked"
           /\ is_some(tanks[cur].vm.state.slot)
           /\ tanks'[cur].vm.val = tanks[cur].vm.state.slot
           /\ tanks'[cur].vm.val = Some(SlotValue(tanks[cur], tanks[cur].vm.state.uc)) ]_vars

C13_Witness ==
    /\ pc = "turn"
    /\ runs >= 3
    /\ tanks[cur].vm.state.tag = "Waiting"
    /\ tanks[cur].vm.state.uc = UGPSY
    /\ tanks[cur].vm.val = Some(tanks[cur].temp)
    /\ tanks[cur].temp > 0
    /\ tanks[cur].pos.x # tanks[cur].pos.y
    /\ tanks[cur].vm.state.slot = Some(tanks[cur].pos.y)

\* C14: the dispatch of an Explode upcall, whether the guest issued it or
\* run_until produced it for a guest that trapped or returned, queues an
\* explosion at the tank and ends the turn, and the tank is Dead when the step
\* returns; a lone tank whose Explode is dispatched leaves the world finished.
C14_ExplodeKills ==
    /\ [][ (pc = "turn" /\ exploded' # exploded)
           => /\ exploded' = exploded \cup {cur}
              /\ upcall' = UExplode
              /\ action_queue' =
                    Append(action_queue, Explosion(tanks[cur].pos, config.explode_rad))
              /\ pc' = "after" ]_vars
    /\ [](pc = "idle" => \A i \in exploded : tanks[i].state = Dead)
    /\ []((pc = "idle" /\ Len(tanks) = 1 /\ exploded = {1}) => finished)

C14_Witness ==
    /\ pc = "idle"
    /\ tick = 1
    /\ Len(tanks) = 1
    /\ exploded = {1}
    /\ tanks[1].vm.state = VMWaiting(UExplode)
    /\ tanks[1].state = Dead
    /\ finished

\* C15: a tank that leaves its loop with temp >= death_heat queues an explosion
\* at its position with radius explode_rad, and, explode_rad being >= 0, after
\* every step every tank that is not Dead has temp < death_heat.
C15_OverheatingKills ==
    /\ [][ (pc = "after" /\ tanks[cur].temp >= config.death_heat)
           => action_queue' =
                 Append(action_queue, Explosion(tanks[cur].pos, config.explode_rad)) ]_vars
    /\ []((pc = "idle" /\ tick >= 1 /\ config.explode_rad >= 0)
          => \A i \in 1..Len(tanks) :
                tanks[i].state # Dead => tanks[i].temp < config.death_heat)

C15_Witness ==
    /\ pc = "idle"
    /\ tick >= 1
    /\ exploded = {}
    /\ drained # <<>>
    /\ \E i \in 1..Len(tanks) :
          tanks[i].temp >= config.death_heat /\ tanks[i].state = Dead

\* the explosion e reaches the point p: the signed sum of the offsets is at most rad
Reached(p, e) == (p.x - e.pos.x) + (p.y - e.pos.y) <= e.rad

\* C16: the drain of the action queue marks Dead exactly the tanks whose
\* position p has (p.x - center.x) + (p.y - center.y) <= rad for a queued
\* explosion, however far away they are, and changes nothing else of any tank
\* and no bullet.
C16_ExplosionReach ==
    [][ (pc = "sweep" /\ pc' = "compact")
        => /\ \A i \in 1..Len(tanks) :
                 tanks'[i] =
                    IF \E k \in 1..Len(action_queue) : Reached(tanks[i].pos, action_queue[k])
                    THEN [tanks[i] EXCEPT !.state = Dead]
                    ELSE tanks[i]
           /\ Len(tanks') = Len(tanks)
           /\ bullets' = bullets ]_vars

C16_Witness ==
    /\ pc = "compact"
    /\ Len(drained) = 1
    /\ \E i \in live0 :
          /\ tanks[i].state = Dead
          /\ (tanks[i].pos.x - drained[1].pos.x) + (tanks[i].pos.y - drained[1].pos.y) < -10
    /\ \E j \in live0 :
          /\ tanks[j].state # Dead
          /\ ~Reached(tanks[j].pos, drained[1])

\* C19: in a world of one tank whose guest only yields, after every tick the
\* tank is not Dead, its temp is 0, there is no bullet and finished() is false.
C19_LoneSurvivor ==
    (pc = "idle" /\ tick >= 1 /\ Len(tanks) = 1 /\ tanks[1].vm.prog = ProgYield)
    => /\ tanks[1].state # Dead
       /\ tanks[1].temp = 0
       /\ bullets = <<>>
       /\ ~finished

C19_Witness ==
    /\ pc = "idle"
    /\ tick >= 3
    /\ config = DefaultConfig
    /\ Len(tanks) = 1
    /\ tanks[1].vm.prog = ProgYield
    /\ tanks[1].state = Free
    /\ tanks[1].temp = 0
    /\ tanks[1].vm.state = VMWaiting(UNone)

\* C21: when run_until returns because the counter reached instrs_per_step, the
\* loop ends with the tank Free, nothing is pushed on the action queue or the
\* bullet list, and the guest is neither halted nor waiting: the next tick
\* resumes it where it stopped.
C21_BudgetEndsTurnOnly ==
    [][ ( /\ pc = "turn"
          /\ runs' = runs + 1
          /\ pc' # "panicked"
          /\ tanks'[cur].vm.why = "budget" )
        => /\ upcall' = UNone
           /\ tanks'[cur].vm.state = VMReady
           /\ tanks'[cur].vm.counter >= tanks[cur].instrs_per_step
           /\ pc' = "after"
           /\ tanks'[cur].state = Free
           /\ ~tanks'[cur].vm.halted
           /\ tanks'[cur].vm.prog = tanks[cur].vm.prog
           /\ action_queue' = action_queue
           /\ bullets' = bullets ]_vars

C21_Witness ==
    /\ pc = "after"
    /\ tick >= 1
    /\ upcall = UNone
    /\ tanks[cur].vm.why = "budget"
    /\ tanks[cur].vm.state = VMReady
    /\ tanks[cur].vm.counter = tanks[cur].instrs_per_step
    /\ ~tanks[cur].vm.halted
    /\ tanks[cur].state = Free
    /\ disp[cur] >= 1
    /\ action_queue = <<>>

\* every datum stored in the tree under node, the node's own data first
RECURSIVE AllData(_)
AllData(node) ==
    node.data \o
    (IF node.children = <<>> THEN <<>>
     ELSE AllData(node.children[1]) \o AllData(node.children[2])
          \o AllData(node.children[3]) \o AllData(node.children[4]))

\* C22: when the collision sweep runs, the root box contains the position of
\* every tank and of every bullet, and each of them is stored in the tree.
C22_RootCoversAll ==
    pc = "sweep" =>
        /\ \A i \in 1..Len(tanks) :
              /\ contains(root.bound, tanks[i].pos)
              /\ TankRef(i) \in Refs(AllData(root))
        /\ \A j \in 1..Len(bullets) :
              /\ contains(root.bound, bullets[j].pos)
              /\ BulletRef(j) \in Refs(AllData(root))

\* C23: World::step runs to its end: no dispatch blocks or panics on a lock
\* that the step holds, the dispatch of Scan included.
C23_StepCompletes == pc # "locked"

\* the four children of node are the equal quadrants of its bound, cut at the midpoint
EqualQuadrants(node) ==
    LET b == node.bound
        c == node.children
    IN  /\ Len(c) = 4
        /\ \A k \in 1..4 : c[k].bound.dim.x * 2 = b.dim.x /\ c[k].bound.dim.y * 2 = b.dim.y
        /\ c[1].bound.org = Pair(b.org.x + c[1].bound.dim.x, b.org.y + c[1].bound.dim.y)
        /\ c[2].bound.org = Pair(b.org.x + c[2].bound.dim.x, b.org.y)
        /\ c[3].bound.org = Pair(b.org.x, b.org.y + c[3].bound.dim.y)
        /\ c[4].bound.org = b.org

\* C24: add_pt of a point inside the bound into a leaf that holds max_data
\* points returns true without panicking; the node then has four equal
\* quadrants for children, holds no point itself, and every point held before
\* and the new one are each stored once in the tree.
C24_SplitSucceeds ==
    call.fn = "tree" =>
        /\ ~call.panic
        /\ Len(call.pts) > DEFAULT_QUAD_SIZE =>
              /\ EqualQuadrants(call.node)
              /\ call.node.data = <<>>
              /\ \A k \in 1..Len(call.pts) : Occurrences(AllData(call.node), call.pts[k]) = 1

\* every node with children holds no data, every leaf at most max_data
RECURSIVE WellFormed(_)
WellFormed(node) ==
    IF node.children = <<>> THEN Len(node.data) <= node.max_data
    ELSE /\ node.data = <<>>
         /\ \A k \in 1..4 : WellFormed(node.children[k])

\* C25: after any sequence of add_pt calls, every node that has children holds
\* no points directly and every leaf holds at most max_data points.
C25_LeavesHoldThePoints == call.fn = "tree" => WellFormed(call.node)

C25_Witness ==
    /\ call.fn = "tree"
    /\ ~call.panic
    /\ call.n = 5
    /\ Len(call.node.data) = call.node.max_data
    /\ Len(call.pts) = 4
    /\ is_some(ret)
    /\ ret.val.op = "add_pt"
    /\ ~ret.val.ok

\* p lies outside the half-open box b
Outside(b, p) ==
    \/ p.x < b.org.x
    \/ p.x >= b.org.x + b.dim.x
    \/ p.y < b.org.y
    \/ p.y >= b.org.y + b.dim.y

\* C26: add_pt of a point outside the node's bound, half-open on both axes,
\* returns false and leaves the tree as it was.
C26_OutsideRefused ==
    [][ ( /\ call.fn = "tree"
          /\ call'.n = call.n + 1
          /\ Outside(call.node.bound, call'.last.val.pt) )
        => /\ ret' = Some([op |-> "add_pt", ok |-> FALSE])
           /\ ~call'.panic
           /\ call'.node = call.node
           /\ call'.pts = call.pts ]_vars

C26_Witness ==
    /\ call.fn = "tree"
    /\ is_some(call.last)
    /\ call.last.val.pt = Pair(4, 1)
    /\ ret = Some([op |-> "add_pt", ok |-> FALSE])
    /\ Len(call.node.data) = 4
    /\ Len(call.pts) = 4

QueryOrderUnsplit ==
    (call.fn = "tree" /\ is_some(ret) /\ ret.val.op = "query")
    => ret.val.found = SelectSeq(call.pts, LAMBDA d : contains(ret.val.q, d.pt))

\* the order in which World.step passes through its phases
PhaseSteps ==
    { <<"idle", "tanks">>, <<"tanks", "turn">>, <<"turn", "after">>,
      <<"turn", "locked">>, <<"turn", "panicked">>, <<"after", "tanks">>,
      <<"tanks", "build">>, <<"build", "sweep">>, <<"build", "panicked">>,
      <<"sweep", "compact">>, <<"compact", "idle">> }

\* C28: one World.step runs, in this order, the turns of the non-dead tanks, the
\* move of every bullet, the building of the quadtree, the collision sweep, the
\* draining of the action queue and the compaction of the bullet list: a phase
\* follows only its predecessor, the bullets move only once every tank has been
\* passed, the queue grows only during the turns and is emptied, whole, only
\* after the sweep of the last tank, and a tank becomes Dead only in the sweep
\* or in the drain, never during a turn; no queued explosion is left over when
\* the step has returned.
C28_PhaseOrder ==
  /\ [](pc = "idle" => action_queue = <<>>)
  /\ [][/\ pc' # pc => <<pc, pc'>> \in PhaseSteps
        /\ (pc = "tanks" /\ pc' = "turn") => tanks[cur].state.tag # "Dead"
        /\ (pc = "tanks" /\ pc' = "tanks" /\ cur' # cur) => tanks[cur].state.tag = "Dead"
        /\ (pc = "tanks" /\ pc' = "build")
              => /\ cur > Len(tanks)
                 /\ Len(bullets') = Len(bullets)
                 /\ \A j \in 1..Len(bullets) :
                        bullets'[j].pos = PairAdd(bullets[j].pos, bullets[j].vel)
        /\ (\E j \in 1..Len(bullets) :
               j <= Len(bullets') /\ bullets'[j].pos # bullets[j].pos /\ pc # "compact")
              => (pc = "tanks" /\ pc' = "build")
        /\ action_queue' # action_queue
              => \/ pc \in {"turn", "after"}
                 \/ /\ pc = "sweep" /\ pc' = "compact" /\ cur > Len(tanks)
                    /\ action_queue' = <<>> /\ drained' = action_queue
        /\ (pc = "sweep" /\ pc' = "compact") => action_queue' = <<>>
        /\ (\E i \in 1..Len(tanks) :
               tanks[i].state.tag # "Dead" /\ tanks'[i].state.tag = "Dead")
              => pc = "sweep"
        /\ tick' # tick => (pc = "compact" /\ tick' = tick + 1) ]_vars

C28_Witness ==
    /\ pc = "compact"
    /\ drained # <<>>
    /\ exploded = {}
    /\ bullets # <<>>
    /\ \E i \in live0 : tanks[i].state.tag = "Dead"

\* s is the beginning of t
StartsWith(t, s) == Len(s) <= Len(t) /\ SubSeq(t, 1, Len(s)) = s

\* a step of the turn of the tank at cur: the entry into Tank.step, a pass of
\* its loop, or the overheating check after the loop
InTurn == (pc = "tanks" /\ pc' = "turn") \/ pc \in {"turn", "after"}

\* C29: during the turn of one tank no other tank changes in any field, the
\* number of tanks stays, every bullet there was stays as it was at its place in
\* the list, every queued action stays as it was at its place in the queue, and
\* the configuration stays: the turn changes the tank itself and appends to the
\* bullet list and to the action queue, nothing else.
C29_TurnFrame ==
    [][ InTurn
        => /\ Len(tanks') = Len(tanks)
           /\ \A i \in 1..Len(tanks) : i # cur => tanks'[i] = tanks[i]
           /\ StartsWith(bullets', bullets)
           /\ StartsWith(action_queue', action_queue)
           /\ config' = config ]_vars

C29_Witness ==
    /\ pc = "after"
    /\ cur = 2
    /\ Len(tanks) >= 2
    /\ Len(bullets) >= 2
    /\ action_queue # <<>>
    /\ tanks[1].state.tag = "Pending"

\* where a bullet fired from p with aim a starts
Muzzle(p, a) == PairAdd(p, PairScale(polar(a), config.bullet_s))

\* the velocity of a bullet fired with aim a
Shot(a) == PairScale(polar(a), config.bullet_v)

\* the place, after the compaction, of the bullet at place idx before it
Kept(idx) == Cardinality({j \in 1..idx : ~bullets[j].dead})

\* the dispatch of Fire: the temperature takes the shooting heat, and one bullet
\* is appended at p + polar(a)*bullet_s with velocity polar(a)*bullet_v, not dead
FireDispatch ==
    [][ (pc = "turn" /\ fired' # fired)
        => /\ fired' = fired \cup {[idx |-> Len(bullets) + 1, p |-> tanks[cur].pos,
                                     a |-> tanks[cur].aim]}
           /\ tanks'[cur].temp = HeatSum(tanks[cur].temp, config.shoot_heat)
           /\ tanks'[cur].pos = tanks[cur].pos
           /\ tanks'[cur].aim = tanks[cur].aim
           /\ bullets' = Append(bullets, [pos |-> Muzzle(tanks[cur].pos, tanks[cur].aim),
                                          vel |-> Shot(tanks[cur].aim),
                                          dead |-> FALSE]) ]_vars

\* C30: when Fire is dispatched for a tank at p with aim a, its temp takes
\* shoot_heat (saturating) and one bullet is appended; that bullet is moved once
\* in the same step, so in the snapshot after the tick it appears, unless the
\* collision sweep removed it, at p + polar(a)*bullet_s + polar(a)*bullet_v with
\* velocity polar(a)*bullet_v and dead = false (from (0,0) with aim 0: x = 35,
\* velocity (5,0)).
C30_FireMovedOnce ==
    /\ FireDispatch
    /\ [][ pc = "compact"
           => \A f \in fired :
                 ~bullets[f.idx].dead
                 => /\ Kept(f.idx) <= Len(bullets')
                    /\ bullets'[Kept(f.idx)] =
                          [pos |-> PairAdd(Muzzle(f.p, f.a), Shot(f.a)),
                           vel |-> Shot(f.a), dead |-> FALSE] ]_vars

\* the statement as given: in the snapshot after the tick the new bullet is at
\* p + polar(a)*bullet_s
C30_FireSnapshot ==
    /\ FireDispatch
    /\ [][ pc = "compact"
           => \A f \in fired :
                 \E k \in 1..Len(bullets') :
                    bullets'[k] = [pos |-> Muzzle(f.p, f.a),
                                   vel |-> Shot(f.a), dead |-> FALSE] ]_vars

C30_Witness ==
    /\ pc = "idle"
    /\ tick = 1
    /\ config = DefaultConfig
    /\ fired = {[idx |-> 1, p |-> Pair(0, 0), a |-> 0]}
    /\ tanks[1].temp = 26
    /\ bullets = <<[pos |-> Pair(35, 0), vel |-> Pair(5, 0), dead |-> FALSE]>>

\* virtual instruction time: the tick number times instrs_per_step, plus the
\* counter
VirtualTime(tk, counter, ips) == tk * ips + counter

\* C31: when a world-altering upcall is dispatched the timer was below
\* instrs_per_step, the counter is raised to max(timer, counter), the timer is
\* set to that counter plus instrs_per_step, and the virtual instruction time
\* of the dispatch is at least instrs_per_step after that of the tank's
\* previous world-altering dispatch.
C31_RateLimit ==
    [][ (pc = "turn" /\ disp'[cur] = disp[cur] + 1)
        => LET ips == tanks[cur].instrs_per_step
               now == tanks'[cur].vm.counter
           IN  /\ tanks[cur].timer < ips
               /\ now >= Max(tanks[cur].timer, tanks[cur].vm.counter)
               /\ tanks[cur].state.tag = "Pending"
                      => now = Max(tanks[cur].timer, tanks[cur].vm.counter)
               /\ tanks'[cur].timer = now + ips
               /\ \A st \in stamp :
                      st.i = cur
                      => VirtualTime(tick, now, ips)
                            - VirtualTime(st.tick, st.counter, ips) >= ips ]_vars

C31_Witness ==
    /\ pc = "after"
    /\ Len(tanks) = 1
    /\ Len(bullets) = 2
    /\ tanks[1].state.tag = "Free"
    /\ fired # {}
    /\ \E st \in stamp : st.i = 1 /\ st.tick = 1 /\ st.counter < tanks[1].instrs_per_step

\* within one turn run_until is entered at most instrs_per_step + 1 times: every
\* host call costs the guest at least one instruction of the budget, and the
\* call that finds the budget spent ends the loop
TurnBounded ==
    pc \in {"turn", "after", "locked"} => runs <= tanks[cur].instrs_per_step + 1

\* C32: every tank turn terminates: the loop of Tank.step is left after at most
\* instrs_per_step + 1 resumptions of the guest, and no pass of the loop stays
\* inside a dispatch.
C32_TurnTerminates ==
    /\ TurnBounded
    /\ \A i \in 1..Len(tanks) : ~(pc = "locked" /\ cur = i)

\* the upcalls that may wait in Pending
Deferrable == {"Fire", "Aim", "Turn", "Forward", "Explode"}

\* C33: between the steps (and at every other moment) a tank is Dead, Free or
\* Pending(u) with u one of fire, aim, turn, forward, explode, never a
\* value-returning upcall or a yield; a tank that was not Pending becomes
\* Pending only in its own turn, from Free, with its timer at least
\* instrs_per_step; a Pending tank that stays Pending keeps its upcall.
C33_PendingIsAltering ==
    /\ [](\A i \in 1..Len(tanks) :
             /\ tanks[i].state.tag \in {"Dead", "Free", "Pending"}
             /\ tanks[i].state.tag = "Pending" => tanks[i].state.uc.k \in Deferrable)
    /\ [][ \A i \in 1..Len(tanks) :
             /\ (tanks'[i].state.tag = "Pending" /\ tanks[i].state.tag # "Pending")
                   => /\ pc = "turn" /\ i = cur
                      /\ tanks[i].state.tag = "Free"
                      /\ tanks[i].timer >= tanks[i].instrs_per_step
             /\ (tanks'[i].state.tag = "Pending" /\ tanks[i].state.tag = "Pending")
                   => /\ tanks'[i].state = tanks[i].state
                      /\ (pc = "turn" /\ i = cur)
                            => tanks[i].timer >= tanks[i].instrs_per_step ]_vars

C33_Witness ==
    /\ pc = "idle"
    /\ tick >= 1
    /\ \E i \in 1..Len(tanks) :
          /\ tanks[i].state = Pending(UFire)
          /\ tanks[i].vm.state.tag = "Waiting"
    /\ \E i \in 1..Len(tanks) : tanks[i].state.tag = "Free"

\* the bullet at place j is inside the hit box of a tank
BulletAtTank(j) ==
    \E i \in 1..Len(tanks) : contains(HitBox(tanks[i]), bullets[j].pos)

\* the bullet at place j is at the same place as another bullet
BulletAtBullet(j) ==
    \E k \in 1..Len(bullets) : k # j /\ bullets[k].pos = bullets[j].pos

\* C34: a bullet that, when the sweep and the drain of a tick are over, is in
\* the hit box of a tank or at the same place as another bullet, is marked dead,
\* so that the compaction takes it off the list - wherever the overlap is.
C34_OverlapRemoved ==
    pc = "compact"
    => \A j \in 1..Len(bullets) :
          (BulletAtTank(j) \/ BulletAtBullet(j)) => bullets[j].dead

\* two bullets at one place, away from every tank, are both on the list after
\* the step
BulletsMeetFar ==
    /\ pc = "idle"
    /\ \E j \in 1..Len(bullets) : BulletAtBullet(j) /\ ~BulletAtTank(j)

\* the points of the plane around the boxes of Boxes
Grid == {Pair(x, y) : x \in -1..6, y \in -4..4}

\* the points of the grid contained in both boxes
Common(a, b) == {p \in Grid : contains(a, p) /\ contains(b, p)}

\* whenever intersect returns Some(b), b contains exactly the points contained
\* in both boxes, and whenever it returns None no point is contained in both
IntersectSound ==
    (call.fn = "intersect" /\ is_some(ret))
    => /\ ret.val.ab.none => Common(call.a, call.b) = {}
       /\ is_some(ret.val.ab)
             => {p \in Grid : contains(ret.val.ab.val, p)} = Common(call.a, call.b)

\* C35: intersect returns None exactly when no point is contained in both
\* boxes, and a box it returns contains exactly the points contained in both.
C35_IntersectExact ==
    (call.fn = "intersect" /\ is_some(ret))
    => /\ ret.val.ab.none <=> Common(call.a, call.b) = {}
       /\ is_some(ret.val.ab)
             => {p \in Grid : contains(ret.val.ab.val, p)} = Common(call.a, call.b)

\* two boxes of positive size that touch along an edge, and a box is returned
TouchingGivesSome ==
    /\ call.fn = "intersect"
    /\ is_some(ret)
    /\ call.a = AABBNew(Pair(0, -1), Pair(3, 2))
    /\ call.b = AABBNew(Pair(0, 1), Pair(3, 2))
    /\ ret.val.ab = Some(AABBNew(Pair(0, 1), Pair(3, 0)))

\* the tanks that were Dead when the sweep of this step began
Wrecks == {i \in 1..Len(tanks) : i \notin live0}

\* the tank list never gets shorter and a Dead tank stays Dead where it is
WrecksStay ==
    [][ /\ Len(tanks') >= Len(tanks)
        /\ \A i \in 1..Len(tanks) :
              tanks[i].state.tag = "Dead"
              => tanks'[i].state.tag = "Dead" /\ tanks'[i].pos = tanks[i].pos ]_vars

\* scan counts every tank in the sector, whatever its state
WrecksScanned ==
    \A b \in {<<0, 2>>, <<0, 4>>} :
        LET c == scan(tanks, Pair(0, 0), 0, b)
        IN  c.us + c.them
              = Cardinality({i \in 1..Len(tanks) :
                                InBounds(ang(PairAdd(tanks[i].pos, PairNeg(Pair(0, 0)))), b)})

\* C36: Dead tanks stay on the list as obstacles: the list never gets shorter,
\* scan counts them, and when the sweep of a step is over every bullet and
\* every tank alive at its start that lies in the hit box of a tank Dead at
\* its start is marked dead.
C36_WrecksAreObstacles ==
    /\ WrecksStay
    /\ []WrecksScanned
    /\ [](pc = "compact"
           => \A i \in Wrecks :
                 /\ \A j \in 1..Len(bullets) :
                       contains(HitBox(tanks[i]), bullets[j].pos) => bullets[j].dead
                 /\ \A k \in live0 :
                       contains(HitBox(tanks[i]), tanks[k].pos)
                       => tanks[k].state.tag = "Dead")

\* a bullet lies in the hit box of a tank that was Dead before the step and is
\* still on the list after the step
BulletThroughWreck ==
    /\ pc = "idle"
    /\ tick >= 2
    /\ \E i \in Wrecks : \E j \in 1..Len(bullets) :
          contains(HitBox(tanks[i]), bullets[j].pos)

(***************************************************************************)
(* The websocket mode: the accept thread and the client threads of         *)
(* TankServer::init (server.rs) and the main loop of websocket_watch       *)
(* (main.rs), around World::step.  The broadcast bus carries the snapshots *)
(* to the clients and has no part in the count of clients; a client thread *)
(* ends when its socket fails or closes, which may be at any moment.       *)
(***************************************************************************)

\* the clients the accept thread accepts
MaxClients == 2

Connect(t, ok) == [k |-> "Connect", team |-> t, addr_ok |-> ok]
Disconnect(t)  == [k |-> "Disconnect", team |-> t, addr_ok |-> TRUE]

\* faulty variant: the channel hands out the newest message first
Send_Front(ch, m) == <<m>> \o ch

\* tx.send(m) on the mpsc channel
Send(ch, m) == Append(ch, m)

\* the world of the websocket mode: a tank that fires and a tank that yields
ServerWorld ==
    [config |-> SmallConfig, tanks |-> << <<Pair(0, 0), 0, 0, ProgFire>>,
                                          <<Pair(20, 0), 1, 0, ProgYield>> >>]

\* wsc.accept(), u.accept() and my_tx.send(Connect(my_team, client.peer_addr()));
\* peer_addr() fails when the peer is gone already
AcceptClient ==
    /\ acceptor = "accept"
    /\ Len(cl) < MaxClients
    /\ \E ok \in BOOLEAN : chan' = Send(chan, Connect(next_team, ok))
    /\ acceptor' = "spawn"
    /\ UNCHANGED <<call, ret, world_only, next_team, cl, main, client_count, got, tick0>>

\* thread::spawn of the client thread, and team = team.wrapping_add(1)
SpawnClient ==
    /\ acceptor = "spawn"
    /\ cl' = Append(cl, [team |-> next_team, at |-> "greeting"])
    /\ next_team' = (next_team + 1) % 256
    /\ acceptor' = "accept"
    /\ UNCHANGED <<call, ret, world_only, chan, main, client_count, got, tick0>>

\* client.send_message(&*to_send)? and client.split()? succeed: the reader
\* and the writer thread run
ClientGreets(i) ==
    /\ cl[i].at = "greeting"
    /\ cl' = [cl EXCEPT ![i].at = "serving"]
    /\ UNCHANGED <<call, ret, world_only, acceptor, next_team, chan, main, client_count, got,
                   tick0>>

\* the ? of send_message or of split returns early: Disconnect is sent
ClientFails(i) ==
    /\ cl[i].at = "greeting"
    /\ cl' = [cl EXCEPT ![i].at = "gone"]
    /\ chan' = Send(chan, Disconnect(cl[i].team))
    /\ UNCHANGED <<call, ret, world_only, acceptor, next_team, main, client_count, got, tick0>>

\* both threads are joined: Disconnect is sent
ClientLeaves(i) ==
    /\ cl[i].at = "serving"
    /\ cl' = [cl EXCEPT ![i].at = "gone"]
    /\ chan' = Send(chan, Disconnect(cl[i].team))
    /\ UNCHANGED <<call, ret, world_only, acceptor, next_team, main, client_count, got, tick0>>

\* while !world.finished()
MainCheck ==
    /\ main = "check"
    /\ main' = IF finished THEN "done" ELSE "recv"
    /\ UNCHANGED <<call, ret, world_only, acceptor, next_team, cl, chan, client_count, got,
                   tick0>>

\* rx.recv() or rx.try_recv() hands out a message, and the match on it:
\* addr.unwrap() panics on a failed peer_addr, and client_count -= 1 at 0
\* underflows (a panic with overflow checks, usize::MAX without)
MainRecv ==
    /\ main = "recv"
    /\ chan # <<>>
    /\ chan' = Tail(chan)
    /\ got' = Append(got, Head(chan))
    /\ IF Head(chan).k = "Connect"
       THEN IF Head(chan).addr_ok
            THEN client_count' = client_count + 1 /\ main' = main
            ELSE client_count' = client_count /\ main' = "panicked"
       ELSE IF client_count = 0
            THEN client_count' = client_count /\ main' = "underflow"
            ELSE client_count' = client_count - 1 /\ main' = main
    /\ UNCHANGED <<call, ret, world_only, acceptor, next_team, cl, tick0>>

\* rx.try_recv() finds the channel empty: break, and world.step() is called
MainBreak ==
    /\ main = "recv"
    /\ chan = <<>>
    /\ client_count # 0
    /\ main' = "step"
    /\ tick0' = tick
    /\ UNCHANGED <<call, ret, world_only, acceptor, next_team, cl, chan, client_count, got>>

\* world.step() runs
MainStep ==
    /\ main = "step"
    /\ pc # "idle" \/ tick = tick0
    /\ Next

\* world.step() has returned: the broadcast, the sleep, and the loop again
MainBroadcast ==
    /\ main = "step"
    /\ pc = "idle"
    /\ tick = tick0 + 1
    /\ main' = "check"
    /\ UNCHANGED <<call, ret, world_only, acceptor, next_team, cl, chan, client_count, got,
                   tick0>>

ServerNext ==
    \/ AcceptClient
    \/ SpawnClient
    \/ \E i \in 1..Len(cl) : ClientGreets(i)
    \/ \E i \in 1..Len(cl) : ClientFails(i)
    \/ \E i \in 1..Len(cl) : ClientLeaves(i)
    \/ MainCheck
    \/ MainRecv
    \/ MainBreak
    \/ MainStep
    \/ MainBroadcast

SpecServer == InitWith(ServerWorld) /\ [][ServerNext]_vars

\* the teams of the clients accepted so far
Accepted ==
    {cl[i].team : i \in 1..Len(cl)} \cup (IF acceptor = "spawn" THEN {next_team} ELSE {})

\* how many times the message m is in the sequence q
Times(q, m) == Cardinality({n \in 1..Len(q) : q[n].k = m.k /\ q[n].team = m.team})

\* how many messages of kind k the main loop has received
Received(k) == Cardinality({n \in 1..Len(got) : got[n].k = k})

\* C37: in websocket mode, however the accept thread, the client threads and
\* the main loop interleave: every message the main loop receives is of an
\* accepted client; for each accepted client one Connect has been sent, and one
\* Disconnect once its thread has ended, each of them in flight or received,
\* never twice; the main loop never has received more Disconnects than
\* Connects of a client, so the Connect comes first; client_count is the
\* number of Connects received minus the number of Disconnects received and
\* its decrement never underflows; and world.step runs only while
\* client_count is not 0.
C37_ConnectThenDisconnect ==
    /\ \A n \in 1..Len(got) : got[n].team \in Accepted
    /\ \A t \in Accepted :
          /\ Times(got, Connect(t, TRUE)) + Times(chan, Connect(t, TRUE)) = 1
          /\ Times(got, Disconnect(t)) <= Times(got, Connect(t, TRUE))
    /\ \A i \in 1..Len(cl) :
          Times(got, Disconnect(cl[i].team)) + Times(chan, Disconnect(cl[i].team))
             = IF cl[i].at = "gone" THEN 1 ELSE 0
    /\ main # "underflow"
    /\ main # "panicked" => client_count = Received("Connect") - Received("Disconnect")
    /\ client_count >= 0
    /\ main = "step" => client_count > 0
    /\ pc # "idle" => main = "step"

C37_Witness ==
    /\ main = "recv"
    /\ tick >= 1
    /\ client_count = 0
    /\ Len(cl) = 2
    /\ cl[1].at = "gone"
    /\ cl[2].at = "gone"
    /\ got = <<Connect(0, TRUE), Connect(1, TRUE), Disconnect(1), Disconnect(0)>>

\* in websocket mode a step passes over a Dead tank while two clients are connected
ServerWorldRuns ==
    /\ main = "step"
    /\ pc = "after"
    /\ cur = 2
    /\ tanks[1].state.tag = "Dead"
    /\ client_count = 2

====
